---------------------------- MODULE Spec2Model ----------------------------
(***************************************************************************)
(* Layout and composition engine of the grid mockup generator.             *)
(*                                                                         *)
(*   App (src/unnamed/part_000)      interactive compositor, export        *)
(*   ui worker (src/unnamed/part_003) preview-pool compositor              *)
(*   export worker (src/export.worker.ts)                                  *)
(*   worker pool (src/uiWorkerPool.ts)                                     *)
(*                                                                         *)
(* Canvas coordinates are JavaScript numbers in the source.  They are      *)
(* modelled as exact rationals <<numerator, denominator>> in lowest terms, *)
(* so that halves, thirds and scale factors are computed as the code       *)
(* computes them, without rounding.                                        *)
(***************************************************************************)
EXTENDS Integers, Sequences, FiniteSets, TLC

VARIABLES
    \* ---- pure compositor check (SpecLayout) ----
    snap,          \* the composition snapshot a draw reads
    frame,         \* the last draw: context, surface size, outcome, paint operations
    \* ---- export button of the App (SpecExport) ----
    viewport,      \* viewport state {width, height}
    isExporting,   \* isExporting state
    renderedExporting, \* isExporting as the last render gave it to handleExport
    encodes,       \* toBlob callbacks not yet run, each the outcome it will deliver
    surfaces,      \* export canvases created so far
    downloads,     \* download links clicked so far
    alerts,        \* alert() dialogs raised by the catch block
    uncaught,      \* errors thrown out of a toBlob callback
    lastCall,      \* what the last handleExport call did
    \* ---- export worker (SpecExportWorker) ----
    inbox,         \* request messages posted to the worker, not yet handled
    handlers,      \* onmessage activations: request id -> position in the handler
    outbox,        \* response messages posted by the worker, in order
    wdrawn,        \* request ids whose drawExportCanvas ran
    nextReq,       \* next request id
    \* ---- preview worker pool (SpecPool) ----
    currentIndex,  \* currentIndex of uiWorkerPool.ts
    workerInbox,   \* per worker: the messages posted to it, in order
    callLog,       \* per call of renderWithWorkerPool: the worker it posted to
    \* ---- image list of the App (Spec) ----
    images,        \* images state: the ordered image ids
    imageBitmaps,  \* imageBitmaps state: the ids that have a decoded handle
    bigImageId,    \* bigImageId state
    layoutMode,    \* layoutMode state
    drawn,         \* what the visible canvas shows: the snapshot its last draw read
    rerender,      \* a state update made by an effect is waiting for its render
    nextId,        \* ids handed out by generateId so far, plus one
    \* ---- FreeformCanvas (SpecSnap, SpecFreeform, SpecWheel, SpecPreload) ----
    items,         \* items state (and itemsRef): the freeform items in paint order
    activeId,      \* activeId state (and activeIdRef)
    size,          \* size state {w, h}
    controls,      \* the snap toggles and knobs: snapGrid, gridSize, showCells, rows, ...
    draggingRef,   \* draggingRef.current
    dragOffsetRef, \* dragOffsetRef.current: [dx, dy], or NoOffset for null
    rotatingRef,   \* rotatingRef.current
    lastGuidesRef, \* lastGuidesRef.current {vx, vy}
    preloads,      \* activations of the preload effect that have not finished
    lastEvent,     \* the event handled last, with the state it was handled in
    snapArgs,      \* SpecSnap: the position given to getSnapped
    snapResults,   \* SpecSnap: what getSnapped returned, applied again to its result
    \* ---- uploads, watermark, debounced knobs and text drag of the App ----
    uploads,       \* addImages calls that have not committed: ids, handles decoded, position
    watermark,     \* watermark state: the id of the watermark, or Null
    watermarkBitmap,   \* watermarkBitmap state: the watermark id it was decoded from, or Null
    watermarkDecodes,  \* handleWatermarkUpload calls waiting for createImageBitmap
    knobs,         \* gap, globalZoom, mainZoom, bgBlur, bgOpacity states
    debounced,     \* the debouncedValue state of each knob's useDebouncedValue
    timers,        \* the pending setTimeout calls: knob, value to set, time left
    sinceChange,   \* per knob: the time since its value last changed, up to the delay
    knobChanges,   \* slider changes made so far
    painted,       \* the debounced knob values the last draw effect read
    interactionState,  \* interactionState state
    rafRef,        \* rafRef.current
    rafPending,    \* animation-frame callbacks requested and neither run nor cancelled
    textLayers,    \* textLayers state: id and position of each layer
    nextRaf        \* the id the next requestAnimationFrame returns

layoutVars == <<snap, frame>>
exportVars == <<viewport, isExporting, renderedExporting, encodes, surfaces, downloads, alerts, uncaught, lastCall>>
workerVars == <<inbox, handlers, outbox, wdrawn, nextReq>>
poolVars   == <<currentIndex, workerInbox, callLog>>
appVars    == <<images, imageBitmaps, bigImageId, layoutMode, drawn, rerender, nextId>>
freeformVars == <<items, activeId, size, controls, draggingRef, dragOffsetRef, rotatingRef,
                  lastGuidesRef, preloads, lastEvent, snapArgs, snapResults>>
editorVars == <<uploads, watermark, watermarkBitmap, watermarkDecodes, knobs, debounced, timers,
                sinceChange, knobChanges, painted, interactionState, rafRef, rafPending, textLayers, nextRaf>>
vars == <<snap, frame,
          viewport, isExporting, renderedExporting, encodes, surfaces, downloads, alerts, uncaught, lastCall,
          inbox, handlers, outbox, wdrawn, nextReq,
          currentIndex, workerInbox, callLog,
          images, imageBitmaps, bigImageId, layoutMode, drawn, rerender, nextId,
          items, activeId, size, controls, draggingRef, dragOffsetRef, rotatingRef,
          lastGuidesRef, preloads, lastEvent, snapArgs, snapResults,
          uploads, watermark, watermarkBitmap, watermarkDecodes, knobs, debounced, timers,
          sinceChange, knobChanges, painted, interactionState, rafRef, rafPending, textLayers, nextRaf>>

(***************************************************************************)
(* Bounds of the model.                                                    *)
(***************************************************************************)
MaxImages   == 4   \* images in a snapshot
MaxExports  == 3   \* handleExport calls that get past the guard
MaxRequests == 3   \* request messages posted to the export worker
MaxCalls    == 7   \* calls of renderWithWorkerPool
MaxUploads  == 3   \* images uploaded over a run of the App

Null == 0          \* null / undefined / no id

(***************************************************************************)
(* Exact rational arithmetic.                                              *)
(***************************************************************************)
Abs(n) == IF n < 0 THEN -n ELSE n

RECURSIVE GCD(_, _)
GCD(a, b) == IF b = 0 THEN a ELSE GCD(b, a % b)

Q(n, d) ==
    LET g == GCD(Abs(n), Abs(d))
        s == IF d < 0 THEN -1 ELSE 1
    IN  <<(s * n) \div g, (s * d) \div g>>

I(n) == <<n, 1>>
RAdd(a, b) == Q(a[1] * b[2] + b[1] * a[2], a[2] * b[2])
RSub(a, b) == Q(a[1] * b[2] - b[1] * a[2], a[2] * b[2])
RMul(a, b) == Q(a[1] * b[1], a[2] * b[2])
RDiv(a, b) == Q(a[1] * b[2], a[2] * b[1])
RLe(a, b)  == a[1] * b[2] <= b[1] * a[2]
RLt(a, b)  == a[1] * b[2] < b[1] * a[2]
RMax(a, b) == IF RLe(a, b) THEN b ELSE a
RZero == I(0)

\* Math.max(1, Math.ceil(Math.sqrt(n)))
CeilSqrt(n) == CHOOSE c \in 0..n : c * c >= n /\ \A k \in 0..n : k * k >= n => c <= k
\* Math.ceil(a / b) for a >= 0, b >= 1
CeilDiv(a, b) == (a + b - 1) \div b
Max(a, b) == IF a >= b THEN a ELSE b
Min(a, b) == IF a <= b THEN a ELSE b


(***************************************************************************)
(* Paint operations.  A draw is the sequence of operations it issues on    *)
(* its 2D context; a step that throws ends the draw.                       *)
(***************************************************************************)
R4(x, y, w, h) == <<x, y, w, h>>
NoRect == R4(RZero, RZero, RZero, RZero)
Op(name, id, rect, render, aux) ==
    [op |-> name, id |-> id, rect |-> rect, render |-> render, aux |-> aux]
\* The outcome of a step: whether it threw, the operations it issued, and the
\* placements (image, rectangle) it was asked to fill, painted or not.
Place(id, rect) == [id |-> id, rect |-> rect]
Ok(ops, calls) == [threw |-> FALSE, ops |-> ops, calls |-> calls]
Threw(calls)   == [threw |-> TRUE, ops |-> <<>>, calls |-> calls]

RECURSIVE RunSteps(_)
RunSteps(steps) ==
    IF steps = <<>> THEN Ok(<<>>, <<>>)
    ELSE LET h == Head(steps) IN
         IF h.threw THEN h
         ELSE LET r == RunSteps(Tail(steps)) IN
              [threw |-> r.threw, ops |-> h.ops \o r.ops, calls |-> h.calls \o r.calls]

\* Intrinsic pixel size of the decoded bitmap of an image id.
BitmapSize(id) ==
    CASE id % 3 = 1 -> <<400, 300>>
      [] id % 3 = 2 -> <<300, 400>>
      [] OTHER      -> <<200, 200>>

\* Contain fit: the base size of an iw x ih image in a w x h cell.
\* the branches exchanged: the cell is covered, the image cropped
CoverFit(iw, ih, w, h) ==
    LET imgRatio  == RDiv(I(iw), I(ih))
        cellRatio == RDiv(w, h)
    IN  IF RLt(cellRatio, imgRatio)
        THEN <<RMul(h, imgRatio), h>>
        ELSE <<w, RDiv(w, imgRatio)>>

ContainFit(iw, ih, w, h) ==
    LET imgRatio  == RDiv(I(iw), I(ih))
        cellRatio == RDiv(w, h)
    IN  IF RLt(cellRatio, imgRatio)
        THEN <<w, RDiv(w, imgRatio)>>
        ELSE <<RMul(h, imgRatio), h>>

\* const drawImage = (img, x, y, w, h, extraZoom = 1) => {...}
\* `img` is an image id, or Null for undefined: reading img.width then throws.
drawImage(img, x, y, w, h, globalZoom, extraZoom) ==
    IF RLe(w, RZero) \/ RLe(h, RZero) THEN Ok(<<>>, <<Place(img, R4(x, y, w, h))>>)
    ELSE IF img = Null THEN Threw(<<Place(img, R4(x, y, w, h))>>)
    ELSE LET dims == BitmapSize(img) IN
         IF dims[1] <= 0 \/ dims[2] <= 0 THEN Ok(<<>>, <<Place(img, R4(x, y, w, h))>>)
         ELSE LET zoom    == RMul(globalZoom, extraZoom)
                  base    == ContainFit(dims[1], dims[2], w, h)
                  renderW == RMul(base[1], zoom)
                  renderH == RMul(base[2], zoom)
                  renderX == RAdd(x, RDiv(RSub(w, renderW), I(2)))
                  renderY == RAdd(y, RDiv(RSub(h, renderH), I(2)))
              IN  Ok(<<Op("drawImage", img, R4(x, y, w, h),
                          R4(renderX, renderY, renderW, renderH), <<>>)>>,
                     <<Place(img, R4(x, y, w, h))>>)

\* Math.floor in place of Math.ceil
GridColsFloor(n) == Max(1, IF CeilSqrt(n) * CeilSqrt(n) = n THEN CeilSqrt(n) ELSE CeilSqrt(n) - 1)
GridCols(n) == Max(1, CeilSqrt(n))
GridRows(n) == Max(1, CeilDiv(n, GridCols(n)))

\* gridImages.forEach((img, i) => { col = i % cols; row = floor(i / cols); ... })
CellSteps(gridImages, cols, x0, y0, cellWidth, cellHeight, gx, gy, gz) ==
    [k \in 1..Len(gridImages) |->
        LET col == (k - 1) % cols
            row == (k - 1) \div cols
            x   == RAdd(x0, RMul(I(col), RAdd(cellWidth, gx)))
            y   == RAdd(y0, RMul(I(row), RAdd(cellHeight, gy)))
        IN  drawImage(gridImages[k], x, y, cellWidth, cellHeight, gz, I(1))]

\* case 'grid' (after the empty-list guard)
GridSteps(loaded, W, H, gx, gy, gz) ==
    LET cols == GridCols(Len(loaded))
        rows == GridRows(Len(loaded))
        cellWidth  == RMax(RZero, RDiv(RSub(W, RMul(I(cols + 1), gx)), I(cols)))
        cellHeight == RMax(RZero, RDiv(RSub(H, RMul(I(rows + 1), gy)), I(rows)))
    IN  CellSteps(loaded, cols, gx, gy, cellWidth, cellHeight, gx, gy, gz)

Half(a) == RDiv(a, I(2))
OneAndHalf(a) == RMul(a, Q(3, 2))

\* case 'left-big' / 'right-big': the big slot
SideBigStep(img, isLeftBig, W, H, gx, gy, gz) ==
    LET bigX == IF isLeftBig THEN gx ELSE RAdd(Half(W), Half(gx))
        bigW == RMax(RZero, RSub(Half(W), OneAndHalf(gx)))
        bigH == RMax(RZero, RSub(H, RMul(gy, I(2))))
    IN  drawImage(img, bigX, gy, bigW, bigH, gz, I(1))

\* the grid given the whole half, without the gap margins
SideGridStepsFullHalf(gridImages, isLeftBig, W, H, gx, gy, gz) ==
    LET cols == GridCols(Len(gridImages))
        rows == GridRows(Len(gridImages))
        startX == IF isLeftBig THEN RAdd(Half(W), Half(gx)) ELSE gx
        availableWidth == Half(W)
        cellWidth  == RMax(RZero, RDiv(RSub(availableWidth, RMul(I(cols - 1), gx)), I(cols)))
        cellHeight == RMax(RZero, RDiv(RSub(H, RMul(I(rows + 1), gy)), I(rows)))
    IN  CellSteps(gridImages, cols, startX, gy, cellWidth, cellHeight, gx, gy, gz)

\* case 'left-big' / 'right-big': the grid in the other half
SideGridSteps(gridImages, isLeftBig, W, H, gx, gy, gz) ==
    LET cols == GridCols(Len(gridImages))
        rows == GridRows(Len(gridImages))
        startX == IF isLeftBig THEN RAdd(Half(W), Half(gx)) ELSE gx
        availableWidth == RMax(RZero, RSub(Half(W), OneAndHalf(gx)))
        cellWidth  == RMax(RZero, RDiv(RSub(availableWidth, RMul(I(cols - 1), gx)), I(cols)))
        cellHeight == RMax(RZero, RDiv(RSub(H, RMul(I(rows + 1), gy)), I(rows)))
    IN  CellSteps(gridImages, cols, startX, gy, cellWidth, cellHeight, gx, gy, gz)

\* case 'top-big' / 'bottom-big': the big slot
StackBigStep(img, isTopBig, W, H, gx, gy, gz) ==
    LET bigY == IF isTopBig THEN gy ELSE RAdd(Half(H), Half(gy))
        bigW == RMax(RZero, RSub(W, RMul(gx, I(2))))
        bigH == RMax(RZero, RSub(Half(H), OneAndHalf(gy)))
    IN  drawImage(img, gx, bigY, bigW, bigH, gz, I(1))

\* case 'top-big' / 'bottom-big': the grid in the other half
StackGridSteps(gridImages, isTopBig, W, H, gx, gy, gz) ==
    LET startY == IF isTopBig THEN RAdd(Half(H), Half(gy)) ELSE gy
        gridHeight == RMax(RZero, RSub(Half(H), OneAndHalf(gy)))
        cols == GridCols(Len(gridImages))
        rows == GridRows(Len(gridImages))
        cellWidth  == RMax(RZero, RDiv(RSub(W, RMul(I(cols + 1), gx)), I(cols)))
        cellHeight == RMax(RZero, RDiv(RSub(gridHeight, RMul(I(rows - 1), gy)), I(rows)))
    IN  CellSteps(gridImages, cols, gx, startY, cellWidth, cellHeight, gx, gy, gz)

\* case 'single-blur': the blurred tiles behind the focus image
BlurTileSteps(bgImages, W, H, blurPx, opacity) ==
    IF Len(bgImages) = 0 THEN <<>>
    ELSE LET cols == GridCols(Len(bgImages))
             rows == GridRows(Len(bgImages))
             cellWidth  == RDiv(W, I(cols))
             cellHeight == RDiv(H, I(rows))
         IN  [k \in 1..Len(bgImages) |->
                LET col == (k - 1) % cols
                    row == (k - 1) \div cols
                    r   == R4(RMul(I(col), cellWidth), RMul(I(row), cellHeight),
                              cellWidth, cellHeight)
                IN  Ok(<<Op("drawTile", bgImages[k], r, r, <<blurPx, opacity>>)>>,
                       <<Place(bgImages[k], r)>>)]

\* case 'single-blur': the focus image
FocusStep(img, W, H, gz, mainZoom) ==
    LET maxW  == RMul(W, Q(8, 10))
        maxH  == RMul(H, Q(9, 10))
        cellX == Half(RSub(W, maxW))
        cellY == Half(RSub(H, maxH))
    IN  drawImage(img, cellX, cellY, maxW, maxH, gz, mainZoom)

(***************************************************************************)
(* The three compositors.  A snapshot s holds what a draw reads:           *)
(* layoutMode, images (ordered ids), bitmaps (ids with a decoded handle),  *)
(* bigImageId, viewport, gap, globalZoom, mainZoom, bgBlur, bgOpacity,     *)
(* background, backgroundBitmap, watermark, watermarkBitmap, textLayers.   *)
(***************************************************************************)
EXPORT_WIDTH  == 2000
EXPORT_HEIGHT == 1500
WatermarkBitmapSize == <<200, 100>>

\* images.map(img => imageBitmaps.get(img.id)).filter(b => !!b)
loadedGridImages(s) == SelectSeq(s.images, LAMBDA id : id \in s.bitmaps)

\* The bitmaps.grid array of a worker message: decoded handles only, in image order.
WorkerBitmapsGrid(s) == loadedGridImages(s)

\* arr[0], undefined when the array is empty
First(arr) == IF Len(arr) > 0 THEN arr[1] ELSE Null

\* images.findIndex(i => i.id === (bigImageId ?? images[0]?.id)), 1-based; 0 for -1
BigIndex(s) ==
    LET target == IF s.bigImageId # Null THEN s.bigImageId ELSE First(s.images)
        hits   == {k \in 1..Len(s.images) : s.images[k] = target}
    IN  IF hits = {} THEN 0 ELSE CHOOSE k \in hits : \A j \in hits : k <= j

\* bigIdx >= 0 ? imageBitmaps.get(images[bigIdx].id) : loadedGridImages[0]
BigBitmap(s) ==
    IF BigIndex(s) > 0
    THEN (IF s.images[BigIndex(s)] \in s.bitmaps THEN s.images[BigIndex(s)] ELSE Null)
    ELSE First(loadedGridImages(s))

\* images.filter((im, idx) => idx !== bigIdx).map(im => imageBitmaps.get(im.id)).filter(b => !!b)
OtherBitmaps(s) ==
    LET keep == {k \in 1..Len(s.images) : k # BigIndex(s) /\ s.images[k] \in s.bitmaps}
        F[k \in 0..Len(s.images)] ==
            IF k = 0 THEN <<>>
            ELSE IF k \in keep THEN Append(F[k - 1], s.images[k]) ELSE F[k - 1]
    IN  F[Len(s.images)]

\* 1. Draw Background
BackgroundSteps(s, W, H) ==
    <<Ok(<<Op("clearRect", Null, R4(RZero, RZero, W, H), NoRect, <<>>)>>, <<>>),
      IF s.background = "image" /\ s.backgroundBitmap
      THEN Ok(<<Op("drawBackground", Null, R4(RZero, RZero, W, H), NoRect, <<>>)>>, <<>>)
      ELSE Ok(<<Op("fillRect", Null, R4(RZero, RZero, W, H), NoRect, <<>>)>>, <<>>)>>

\* ctx.fillText('Upload images to begin', width / 2, height / 2)
PlaceholderStep(W, H) ==
    Ok(<<Op("placeholder", Null, R4(Half(W), Half(H), RZero, RZero), NoRect, <<>>)>>, <<>>)

\* 3. Draw Watermark
WatermarkSteps(s, W, H, marginX, marginY) ==
    IF s.watermark.set /\ s.watermarkBitmap
       /\ WatermarkBitmapSize[1] > 0 /\ WatermarkBitmapSize[2] > 0
    THEN LET aspect == RDiv(I(WatermarkBitmapSize[1]), I(WatermarkBitmapSize[2]))
             w == RMul(RDiv(W, I(100)), s.watermark.size)
             h == RDiv(w, aspect)
             pos == s.watermark.position
             x == CASE pos = "top-left"     -> marginX
                    [] pos = "top-right"    -> RSub(RSub(W, w), marginX)
                    [] pos = "bottom-left"  -> marginX
                    [] pos = "bottom-right" -> RSub(RSub(W, w), marginX)
                    [] pos = "center"       -> Half(RSub(W, w))
                    [] OTHER                -> RZero
             y == CASE pos = "top-left"     -> marginY
                    [] pos = "top-right"    -> marginY
                    [] pos = "bottom-left"  -> RSub(RSub(H, h), marginY)
                    [] pos = "bottom-right" -> RSub(RSub(H, h), marginY)
                    [] pos = "center"       -> Half(RSub(H, h))
                    [] OTHER                -> RZero
         IN  <<Ok(<<Op("drawWatermark", Null, R4(x, y, w, h), NoRect,
                       <<s.watermark.opacity>>)>>, <<>>)>>
    ELSE <<>>

\* 4. Draw text layers
TextSteps(s, scaleX, scaleY) ==
    [k \in 1..Len(s.textLayers) |->
        LET layer == s.textLayers[k]
            x == RMul(I(layer.x), scaleX)
            y == RMul(I(layer.y), scaleY)
            scaledFontSize == RMul(I(layer.fontSize), scaleY)
            scaledPadding  == RMul(I(layer.padding), scaleY)
            plate  == IF RLt(RZero, layer.backgroundOpacity)
                      THEN <<layer.backgroundOpacity, scaledPadding>> ELSE <<>>
            shadow == IF layer.shadow
                      THEN <<RMul(I(10), scaleY), RMul(I(5), scaleX), RMul(I(5), scaleY)>>
                      ELSE <<>>
        IN  Ok(<<Op("fillText", layer.id, R4(x, y, scaledFontSize, RZero), NoRect,
                    <<I(layer.rotation)>> \o plate \o shadow)>>, <<>>)]

\* arr.slice(1)
Slice1(arr) == IF Len(arr) = 0 THEN <<>> ELSE Tail(arr)

IsSideBig(mode)  == mode \in {"left-big", "right-big"}
IsStackBig(mode) == mode \in {"top-big", "bottom-big"}

\* App.drawCanvas(canvas, forExport): the interactive compositor, and the export
\* pass handleExport runs on the interaction thread.
drawCanvas(s, forExport) ==
    LET currentWidth  == I(IF forExport THEN EXPORT_WIDTH ELSE s.viewport[1])
        currentHeight == I(IF forExport THEN EXPORT_HEIGHT ELSE s.viewport[2])
        scaleX == IF forExport THEN RDiv(I(EXPORT_WIDTH), I(s.viewport[1])) ELSE I(1)
        scaleY == IF forExport THEN RDiv(I(EXPORT_HEIGHT), I(s.viewport[2])) ELSE I(1)
        loaded == loadedGridImages(s)
        exportGapX == RMul(I(s.gap), scaleX)
        exportGapY == RMul(I(s.gap), scaleY)
        mode == s.layoutMode
        gz   == s.globalZoom
        layout ==
            CASE mode = "grid" ->
                    IF Len(loaded) = 0 THEN <<>>
                    ELSE GridSteps(loaded, currentWidth, currentHeight, exportGapX, exportGapY, gz)
              [] IsSideBig(mode) ->
                    (IF Len(loaded) > 0 /\ BigBitmap(s) # Null
                     THEN <<SideBigStep(BigBitmap(s), mode = "left-big", currentWidth,
                                        currentHeight, exportGapX, exportGapY, gz)>>
                     ELSE <<>>)
                    \o (IF Len(s.images) > 1
                        THEN SideGridSteps(OtherBitmaps(s), mode = "left-big", currentWidth,
                                           currentHeight, exportGapX, exportGapY, gz)
                        ELSE <<>>)
              [] IsStackBig(mode) ->
                    (IF Len(loaded) > 0 /\ BigBitmap(s) # Null
                     THEN <<StackBigStep(BigBitmap(s), mode = "top-big", currentWidth,
                                         currentHeight, exportGapX, exportGapY, gz)>>
                     ELSE <<>>)
                    \o (IF Len(s.images) > 1
                        THEN StackGridSteps(OtherBitmaps(s), mode = "top-big", currentWidth,
                                            currentHeight, exportGapX, exportGapY, gz)
                        ELSE <<>>)
              [] mode = "single-blur" ->
                    BlurTileSteps(Slice1(loaded), currentWidth, currentHeight,
                                  RMul(I(s.bgBlur), scaleX), s.bgOpacity)
                    \o (IF Len(loaded) > 0
                        THEN <<FocusStep(loaded[1], currentWidth, currentHeight, gz, s.mainZoom)>>
                        ELSE <<>>)
              [] OTHER -> <<>>   \* 'freeform': drawn by the FreeformCanvas overlay
    IN  IF Len(s.images) = 0 /\ ~forExport
        THEN RunSteps(BackgroundSteps(s, currentWidth, currentHeight)
                      \o <<PlaceholderStep(currentWidth, currentHeight)>>)
        ELSE RunSteps(BackgroundSteps(s, currentWidth, currentHeight)
                      \o layout
                      \o WatermarkSteps(s, currentWidth, currentHeight, exportGapX, exportGapY)
                      \o TextSteps(s, scaleX, scaleY))

\* ui worker: drawCanvas(ctx, width, height, state, bitmaps); the canvas has been
\* resized to the viewport of the message.
uiWorkerDrawCanvas(s) ==
    LET width  == I(s.viewport[1])
        height == I(s.viewport[2])
        gap    == I(s.gap)
        loaded == WorkerBitmapsGrid(s)
        mode   == s.layoutMode
        gz     == s.globalZoom
        layout ==
            CASE mode = "grid" -> GridSteps(loaded, width, height, gap, gap, gz)
              [] IsSideBig(mode) ->
                    <<SideBigStep(First(loaded), mode = "left-big", width, height, gap, gap, gz)>>
                    \o (IF Len(loaded) > 1
                        THEN SideGridSteps(Slice1(loaded), mode = "left-big", width, height,
                                           gap, gap, gz)
                        ELSE <<>>)
              [] IsStackBig(mode) ->
                    <<StackBigStep(First(loaded), mode = "top-big", width, height, gap, gap, gz)>>
                    \o (IF Len(loaded) > 1
                        THEN StackGridSteps(Slice1(loaded), mode = "top-big", width, height,
                                            gap, gap, gz)
                        ELSE <<>>)
              [] mode = "single-blur" ->
                    BlurTileSteps(Slice1(loaded), width, height, I(s.bgBlur), s.bgOpacity)
                    \o <<FocusStep(First(loaded), width, height, gz, s.mainZoom)>>
              [] OTHER -> <<>>
    IN  IF Len(s.images) = 0
        THEN RunSteps(BackgroundSteps(s, width, height) \o <<PlaceholderStep(width, height)>>)
        ELSE RunSteps(BackgroundSteps(s, width, height)
                      \o layout
                      \o WatermarkSteps(s, width, height, gap, gap))

\* export worker: drawExportCanvas(ctx, EXPORT_WIDTH, EXPORT_HEIGHT, sourceDimensions,
\* state, bitmaps) on a canvas of ew x eh, sourceDimensions being the viewport.
drawExportCanvas(s, ew, eh) ==
    LET W == I(ew)
        H == I(eh)
        scaleX == RDiv(I(ew), I(s.viewport[1]))
        scaleY == RDiv(I(eh), I(s.viewport[2]))
        exportGapX == RMul(I(s.gap), scaleX)
        exportGapY == RMul(I(s.gap), scaleY)
        loaded == WorkerBitmapsGrid(s)
        mode   == s.layoutMode
        gz     == s.globalZoom
        layout ==
            CASE mode = "grid" ->
                    IF Len(loaded) = 0 THEN <<>>
                    ELSE GridSteps(loaded, W, H, exportGapX, exportGapY, gz)
              [] IsSideBig(mode) ->
                    (IF Len(loaded) > 0
                     THEN <<SideBigStep(loaded[1], mode = "left-big", W, H,
                                        exportGapX, exportGapY, gz)>>
                     ELSE <<>>)
                    \o (IF Len(loaded) > 1
                        THEN SideGridSteps(Slice1(loaded), mode = "left-big", W, H,
                                           exportGapX, exportGapY, gz)
                        ELSE <<>>)
              [] IsStackBig(mode) ->
                    (IF Len(loaded) > 0
                     THEN <<StackBigStep(loaded[1], mode = "top-big", W, H,
                                         exportGapX, exportGapY, gz)>>
                     ELSE <<>>)
                    \o (IF Len(loaded) > 1
                        THEN StackGridSteps(Slice1(loaded), mode = "top-big", W, H,
                                            exportGapX, exportGapY, gz)
                        ELSE <<>>)
              [] mode = "single-blur" ->
                    BlurTileSteps(Slice1(loaded), W, H, RMul(I(s.bgBlur), scaleX), s.bgOpacity)
                    \o (IF Len(loaded) > 0
                        THEN <<FocusStep(loaded[1], W, H, gz, s.mainZoom)>>
                        ELSE <<>>)
              [] OTHER -> <<>>
    IN  RunSteps(BackgroundSteps(s, W, H)
                 \o layout
                 \o WatermarkSteps(s, W, H, exportGapX, exportGapY)
                 \o TextSteps(s, scaleX, scaleY))

(***************************************************************************)
(* SpecLayout: the compositors as pure functions of the snapshot.  Init    *)
(* draws the snapshot from bounded sets; each action runs one compositor   *)
(* on it, on a fresh surface, and records the frame it produced.           *)
(***************************************************************************)
Modes == {"grid", "freeform", "single-blur", "left-big", "right-big", "top-big", "bottom-big"}
Viewports == {<<800, 600>>, <<300, 90>>}
Gaps == {0, 16, 100}              \* the Gap slider runs from 0 to 100
StaleId == MaxImages + 1          \* the id of an image no longer in the working set

NoWatermark == [set |-> FALSE, opacity |-> Q(1, 2), size |-> I(20), position |-> "bottom-right"]
UploadedWatermark == [NoWatermark EXCEPT !.set = TRUE]

\* addTextLayer's defaults, at two positions; the second without plate and shadow
TextA == [id |-> 1, x |-> 400, y |-> 300, fontSize |-> 48, padding |-> 10,
          rotation |-> 0, shadow |-> TRUE, backgroundOpacity |-> Q(1, 2)]
TextB == [id |-> 2, x |-> 100, y |-> 60, fontSize |-> 24, padding |-> 10,
          rotation |-> 90, shadow |-> FALSE, backgroundOpacity |-> RZero]

\* Decorations of a snapshot: none, or a watermark and two text layers.
Decors == { [watermark |-> NoWatermark, textLayers |-> <<>>],
            [watermark |-> UploadedWatermark, textLayers |-> <<TextA, TextB>>] }

\* Which decodes failed (addImages keeps the image, without a bitmap): none, the
\* first image's, or all.
DecodedSets(n) == { 1..n, 2..n, {} }

Snapshots ==
    UNION { { [layoutMode |-> m, images |-> [k \in 1..n |-> k], bitmaps |-> b,
               bigImageId |-> big, viewport |-> v, gap |-> g,
               globalZoom |-> I(1), mainZoom |-> I(1), bgBlur |-> 10, bgOpacity |-> Q(3, 10),
               background |-> "color", backgroundBitmap |-> FALSE,
               watermark |-> d.watermark, watermarkBitmap |-> d.watermark.set,
               textLayers |-> d.textLayers] :
                 m \in Modes, v \in Viewports, g \in Gaps, d \in Decors,
                 b \in DecodedSets(n), big \in (0..n) \cup {StaleId} } : n \in 0..MaxImages }

NoFrame == [ctx |-> "none", w |-> 0, h |-> 0, threw |-> FALSE, ops |-> <<>>, calls |-> <<>>]
Frame(ctx, w, h, r) ==
    [ctx |-> ctx, w |-> w, h |-> h, threw |-> r.threw, ops |-> r.ops, calls |-> r.calls]


IdleLayout == snap = <<>> /\ frame = NoFrame
IdleExport ==
    /\ viewport = <<0, 0>> /\ isExporting = FALSE /\ renderedExporting = FALSE
    /\ encodes = <<>> /\ surfaces = 0
    /\ downloads = 0 /\ alerts = 0 /\ uncaught = 0 /\ lastCall = "none"
IdleWorker ==
    /\ inbox = <<>> /\ handlers = [r \in 1..MaxRequests |-> "none"] /\ outbox = <<>>
    /\ wdrawn = {} /\ nextReq = 1
Blank == [layoutMode |-> "blank"]
IdleApp ==
    /\ images = <<>> /\ imageBitmaps = {} /\ bigImageId = Null /\ layoutMode = "grid"
    /\ drawn = Blank /\ rerender = FALSE /\ nextId = 1
\* The FreeformCanvas controls as their useState calls initialise them.
\* useState initial values of the tidy knobs
thumbWidth == 160
thumbGap == 12
maxCols == 5
DefaultControls ==
    [snapGrid |-> TRUE, gridSize |-> 40, showCells |-> TRUE, rows |-> 2, cols |-> 3,
     cellGapX |-> 16, cellGapY |-> 16, snapSmart |-> TRUE,
     thumbWidth |-> thumbWidth, thumbGap |-> thumbGap, maxCols |-> maxCols, autoTidy |-> TRUE]
NoGuides == [vx |-> <<>>, vy |-> <<>>]
\* dragOffsetRef.current = null
NoOffset == [null |-> TRUE]
NoEvent == [type |-> "none", n |-> 0]
IdleFreeform ==
    /\ items = <<>> /\ activeId = Null /\ size = <<800, 800>> /\ controls = DefaultControls
    /\ draggingRef = FALSE /\ dragOffsetRef = NoOffset /\ rotatingRef = FALSE
    /\ lastGuidesRef = NoGuides /\ preloads = <<>> /\ lastEvent = NoEvent
    /\ snapArgs = <<>> /\ snapResults = <<>>
\* the knobs read through useDebouncedValue, and their useState initial values
Knobs == {"gap", "globalZoom", "mainZoom", "bgBlur", "bgOpacity"}
KnobDefaults ==
    [gap |-> I(16), globalZoom |-> I(1), mainZoom |-> I(1), bgBlur |-> I(10),
     bgOpacity |-> Q(3, 10)]
NoInteraction == [mode |-> "idle", target |-> Null]
IdleEditor ==
    /\ uploads = <<>>
    /\ watermark = Null /\ watermarkBitmap = Null /\ watermarkDecodes = <<>>
    /\ knobs = KnobDefaults /\ debounced = KnobDefaults
    /\ timers = {} /\ sinceChange = [k \in Knobs |-> 0] /\ knobChanges = 0
    /\ painted = KnobDefaults
    /\ interactionState = NoInteraction /\ rafRef = 0 /\ rafPending = {}
    /\ textLayers = <<>> /\ nextRaf = 1
WORKER_COUNT == 3
IdlePool ==
    /\ currentIndex = 0 /\ workerInbox = [w \in 0..(WORKER_COUNT - 1) |-> <<>>]
    /\ callLog = <<>>
notLayout  == <<editorVars, exportVars, workerVars, poolVars, appVars, freeformVars>>

\* draw effect of the App: drawCanvas(canvas, false)
DrawInteractive ==
    /\ frame.ctx = "none"
    /\ frame' = Frame("interactive", snap.viewport[1], snap.viewport[2], drawCanvas(snap, FALSE))
    /\ UNCHANGED <<snap, notLayout>>

\* handleExport: drawCanvas(exportCanvas, true)
DrawExport ==
    /\ frame.ctx = "none"
    /\ frame' = Frame("export", EXPORT_WIDTH, EXPORT_HEIGHT, drawCanvas(snap, TRUE))
    /\ UNCHANGED <<snap, notLayout>>

\* ui worker, message {type: 'draw'}
DrawPreviewWorker ==
    /\ frame.ctx = "none"
    /\ frame' = Frame("preview-worker", snap.viewport[1], snap.viewport[2],
                      uiWorkerDrawCanvas(snap))
    /\ UNCHANGED <<snap, notLayout>>

\* export worker, on a canvas of the export resolution
DrawExportWorker ==
    /\ frame.ctx = "none"
    /\ frame' = Frame("export-worker", EXPORT_WIDTH, EXPORT_HEIGHT,
                      drawExportCanvas(snap, EXPORT_WIDTH, EXPORT_HEIGHT))
    /\ UNCHANGED <<snap, notLayout>>

\* export worker, on a canvas of the viewport's size (scale factor 1)
DrawExportWorkerUnscaled ==
    /\ frame.ctx = "none"
    /\ frame' = Frame("export-worker", snap.viewport[1], snap.viewport[2],
                      drawExportCanvas(snap, snap.viewport[1], snap.viewport[2]))
    /\ UNCHANGED <<snap, notLayout>>

InitLayout ==
    /\ snap \in Snapshots
    /\ frame = NoFrame
    /\ IdleExport /\ IdleWorker /\ IdlePool /\ IdleApp /\ IdleFreeform /\ IdleEditor

NextLayout ==
    \/ DrawInteractive
    \/ DrawExport
    \/ DrawPreviewWorker
    \/ DrawExportWorker
    \/ DrawExportWorkerUnscaled

SpecLayout == InitLayout /\ [][NextLayout]_vars

(***************************************************************************)
(* Properties of the compositors (SpecLayout).                             *)
(***************************************************************************)
Drawn == frame.ctx # "none"
FrameW == I(frame.w)
FrameH == I(frame.h)
\* the gap in surface units: the caller's gap times surface size / viewport size
FrameGapX == RDiv(I(snap.gap * frame.w), I(snap.viewport[1]))
FrameGapY == RDiv(I(snap.gap * frame.h), I(snap.viewport[2]))

\* ceil(sqrt(n)) and ceil(n / c), stated by their defining inequalities
IsCeilSqrt(c, n) == c >= 1 /\ (c - 1) * (c - 1) < n /\ n <= c * c
IsCeilDiv(r, n, c) == r >= 1 /\ (r - 1) * c < n /\ n <= r * c

\* The grid cells of `ids` on the frame's surface, cell sizes given by CellW, CellH.
GridAsClaimed(ids, CellW(_), CellH(_)) ==
    LET N == Len(ids) IN
    \E cols \in 1..N, rows \in 1..N :
       /\ IsCeilSqrt(cols, N) /\ IsCeilDiv(rows, N, cols)
       /\ cols * rows >= N
       /\ Len(frame.calls) = N
       /\ \A k \in 1..N :
             LET col == (k - 1) % cols
                 row == (k - 1) \div cols
             IN  /\ frame.calls[k].id = ids[k]
                 /\ frame.calls[k].rect =
                       R4(RAdd(FrameGapX, RMul(I(col), RAdd(CellW(cols), FrameGapX))),
                          RAdd(FrameGapY, RMul(I(row), RAdd(CellH(rows), FrameGapY))),
                          CellW(cols), CellH(rows))
       /\ (N = 4 /\ frame.w = 800 /\ frame.h = 600 /\ snap.gap = 16
             /\ snap.viewport = <<800, 600>>)
            => cols = 2 /\ rows = 2 /\ CellW(cols) = I(376) /\ CellH(rows) = I(276)

RawCellW(cols) == RDiv(RSub(FrameW, RMul(I(cols + 1), FrameGapX)), I(cols))
RawCellH(rows) == RDiv(RSub(FrameH, RMul(I(rows + 1), FrameGapY)), I(rows))
ClampedCellW(cols) == RMax(RZero, RawCellW(cols))
ClampedCellH(rows) == RMax(RZero, RawCellH(rows))

\* C7 as stated: in grid mode with N >= 1 images, cols = ceil(sqrt(N)),
\* rows = ceil(N / cols), cols * rows >= N, image i sits at column i mod cols and
\* row floor(i / cols), and every cell is (W - (cols+1)*gap)/cols wide and
\* (H - (rows+1)*gap)/rows high; 4 images on 800x600 with gap 16 give 2x2 cells of
\* 376x276.
C7_GridAsStated ==
    (Drawn /\ snap.layoutMode = "grid" /\ Len(snap.images) >= 1)
        => GridAsClaimed(snap.images, RawCellW, RawCellH)

\* C7 amended: the same, for the N >= 1 images that have a decoded handle, with the
\* cell width and height clamped below at zero: max(0, (W - (cols+1)*gap)/cols) and
\* max(0, (H - (rows+1)*gap)/rows).
C7_GridCellsClamped ==
    (Drawn /\ snap.layoutMode = "grid" /\ Len(snap.images) >= 1
       /\ Len(loadedGridImages(snap)) >= 1)
        => GridAsClaimed(loadedGridImages(snap), ClampedCellW, ClampedCellH)

C7_Witness ==
    /\ frame.ctx = "interactive" /\ snap.layoutMode = "grid"
    /\ snap.images = <<1, 2, 3, 4>> /\ snap.bitmaps = 1..4
    /\ snap.viewport = <<800, 600>> /\ snap.gap = 16
    /\ Len(frame.calls) = 4
    /\ frame.calls[4].rect = R4(I(408), I(308), I(376), I(276))

\* Geometry of placements on the frame's surface.
Positive(r) == RLt(RZero, r[3]) /\ RLt(RZero, r[4])
InsideCanvas(r) ==
    /\ RLe(RZero, r[1]) /\ RLe(RZero, r[2])
    /\ RLe(RAdd(r[1], r[3]), FrameW) /\ RLe(RAdd(r[2], r[4]), FrameH)
\* two rectangles share interior points
Overlap(a, b) ==
    /\ Positive(a) /\ Positive(b)
    /\ RLt(a[1], RAdd(b[1], b[3])) /\ RLt(b[1], RAdd(a[1], a[3]))
    /\ RLt(a[2], RAdd(b[2], b[4])) /\ RLt(b[2], RAdd(a[2], a[4]))
Calls == 1..Len(frame.calls)
\* in single-focus mode the focus image is the last placement of the draw
IsFocusCall(k) == snap.layoutMode = "single-blur" /\ k = Len(frame.calls)

\* C8 as stated: for every layout mode, image count, canvas size and gap, the
\* placement rectangles of one draw are pairwise non-overlapping and each lies
\* inside the canvas rectangle [0,W] x [0,H].
C8_DisjointInsideAsStated ==
    frame.ctx \in {"interactive", "export"} =>
      /\ \A k \in Calls : InsideCanvas(frame.calls[k].rect)
      /\ \A j, k \in Calls : j # k => ~Overlap(frame.calls[j].rect, frame.calls[k].rect)

\* C8 amended: every placement of positive width and height (the only ones that
\* are painted) lies inside the canvas rectangle; such placements are pairwise
\* non-overlapping, except that in single-focus mode the focus rectangle lies over
\* the background tiles, which are pairwise non-overlapping among themselves.
C8_PaintedDisjointInside ==
    Drawn =>
      /\ \A k \in Calls : Positive(frame.calls[k].rect) => InsideCanvas(frame.calls[k].rect)
      /\ \A j, k \in Calls :
            (j # k /\ ~IsFocusCall(j) /\ ~IsFocusCall(k))
               => ~Overlap(frame.calls[j].rect, frame.calls[k].rect)

C8_Witness ==
    /\ frame.ctx = "interactive" /\ snap.layoutMode = "right-big"
    /\ Len(frame.calls) = 4
    /\ \A k \in Calls : Positive(frame.calls[k].rect)
    /\ snap.gap = 16

\* C5: for the same snapshot and the same surface size the interactive compositor,
\* the preview-pool worker and the export worker issue the same sequence of paint
\* operations (same image in the same rectangle, same watermark, same text layers).
\* Stated for snapshots with at least one image and every image decoded; the
\* export worker at export resolution is compared with the App's own export pass.
AllDecoded == Len(snap.images) >= 1 /\ snap.bitmaps = 1..Len(snap.images)
C5_SameOperations ==
  AllDecoded =>
    /\ (frame.ctx \in {"preview-worker", "export-worker"}
          /\ <<frame.w, frame.h>> = snap.viewport)
        => (~frame.threw /\ frame.ops = drawCanvas(snap, FALSE).ops)
    /\ (frame.ctx = "export-worker" /\ <<frame.w, frame.h>> = <<EXPORT_WIDTH, EXPORT_HEIGHT>>)
        => (~frame.threw /\ frame.ops = drawCanvas(snap, TRUE).ops)

\* x and width times scaleX, y and height times scaleY
ScaledCalls(calls, scaleX, scaleY) ==
    [k \in 1..Len(calls) |->
        Place(calls[k].id, R4(RMul(calls[k].rect[1], scaleX), RMul(calls[k].rect[2], scaleY),
                              RMul(calls[k].rect[3], scaleX), RMul(calls[k].rect[4], scaleY)))]

\* C6: each placement computed at export resolution is the interactive placement
\* with x and width times scaleX = exportWidth / viewportWidth and y and height
\* times scaleY = exportHeight / viewportHeight, with the same image assigned.
\* Stated for snapshots with at least one image and every image decoded.
C6_ExportIsScaledInteractive ==
    (AllDecoded /\ frame.ctx \in {"export", "export-worker"}
       /\ <<frame.w, frame.h>> = <<EXPORT_WIDTH, EXPORT_HEIGHT>>)
      => frame.calls = ScaledCalls(drawCanvas(snap, FALSE).calls,
                                   RDiv(I(EXPORT_WIDTH), I(snap.viewport[1])),
                                   RDiv(I(EXPORT_HEIGHT), I(snap.viewport[2])))

\* C10: in each rendering context and layout mode, a draw with zero images, with
\* images but no decoded handle, with a gap larger than the canvas or with
\* zero-size cells completes without raising an error, and paints nothing for a
\* placement of no size.
Degenerate ==
    \/ Len(snap.images) = 0
    \/ loadedGridImages(snap) = <<>>
    \/ snap.gap > snap.viewport[1] \/ snap.gap > snap.viewport[2]
    \/ \E k \in Calls : ~Positive(frame.calls[k].rect)
C10_DegenerateDrawCompletes ==
    (Drawn /\ Degenerate) =>
      /\ ~frame.threw
      /\ \A j \in 1..Len(frame.ops) :
            frame.ops[j].op = "drawImage" => Positive(frame.ops[j].rect)

(***************************************************************************)
(* SpecPool: the preview worker pool (src/uiWorkerPool.ts).                *)
(***************************************************************************)
notPool == <<editorVars, layoutVars, exportVars, workerVars, appVars, freeformVars>>
PoolMessages == {"init", "draw"}

\* an index that wraps one worker early
NextIndexShort(i) == (i + 1) % (WORKER_COUNT - 1)
\* currentIndex = (currentIndex + 1) % WORKER_COUNT
NextIndex(i) == (i + 1) % WORKER_COUNT

\* renderWithWorkerPool(data)
renderWithWorkerPool ==
    /\ Len(callLog) < MaxCalls
    /\ \E data \in PoolMessages :
          LET worker == currentIndex IN
          /\ currentIndex' = NextIndex(currentIndex)
          /\ workerInbox' = [workerInbox EXCEPT ![worker] = Append(@, data)]
          /\ callLog' = Append(callLog, worker)
    /\ UNCHANGED notPool

InitPool ==
    /\ IdlePool
    /\ snap = <<>> /\ frame = NoFrame
    /\ IdleExport /\ IdleWorker /\ IdleApp /\ IdleFreeform /\ IdleEditor

NextPool == renderWithWorkerPool

SpecPool == InitPool /\ [][NextPool]_vars

\* C4: the k-th call of renderWithWorkerPool (from 0) posts its message to worker
\* k mod 3 and to no other worker, currentIndex stays within 0..2, and in any 3
\* consecutive calls each of the 3 workers receives exactly one message.
C4_RoundRobin ==
    /\ currentIndex \in 0..2
    /\ \A k \in 0..(Len(callLog) - 1) : callLog[k + 1] = k % 3
    /\ \A w \in 0..2 :
          Len(workerInbox[w]) = Cardinality({k \in 0..(Len(callLog) - 1) : k % 3 = w})
    /\ \A k \in 1..(Len(callLog) - 2) :
          \A w \in 0..2 : Cardinality({j \in k..(k + 2) : callLog[j] = w}) = 1

C4_Witness ==
    /\ Len(callLog) >= 5
    /\ Len(workerInbox[0]) = 2 /\ Len(workerInbox[1]) = 2 /\ Len(workerInbox[2]) = 1

(***************************************************************************)
(* SpecExportWorker: the export worker's message handler                   *)
(* (src/export.worker.ts).  A request is dispatched in arrival order; the  *)
(* handler runs up to its first real suspension, the blob encoding, and    *)
(* other requests may be dispatched while an encoding is outstanding.      *)
(***************************************************************************)
notWorker == <<editorVars, layoutVars, exportVars, poolVars, appVars, freeformVars>>
Requests == 1..MaxRequests

Response(r, type, payload) == [req |-> r, type |-> type, payload |-> payload]
ResponsesOf(r) == {k \in 1..Len(outbox) : outbox[k].req = r}

\* the main thread posts an export request to the worker
PostExportRequest ==
    /\ nextReq <= MaxRequests
    /\ inbox' = Append(inbox, nextReq)
    /\ handlers' = [handlers EXCEPT ![nextReq] = "queued"]
    /\ nextReq' = nextReq + 1
    /\ UNCHANGED <<outbox, wdrawn, notWorker>>

\* a handler that goes on after reporting the missing context: the draw on the
\* null context throws and the catch reports a second time
onmessageNoReturn ==
    /\ inbox # <<>>
    /\ LET r == Head(inbox) IN
       /\ inbox' = Tail(inbox)
       /\ \E ctx \in {"2d", "null"}, draws \in BOOLEAN :
             IF ctx = "null"
             THEN /\ outbox' = outbox \o <<Response(r, "error", "message"),
                                           Response(r, "error", "message")>>
                  /\ handlers' = [handlers EXCEPT ![r] = "noContext"]
                  /\ UNCHANGED wdrawn
             ELSE /\ wdrawn' = wdrawn \cup {r}
                  /\ IF draws
                     THEN /\ handlers' = [handlers EXCEPT ![r] = "encoding"]
                          /\ UNCHANGED outbox
                     ELSE /\ outbox' = Append(outbox, Response(r, "error", "message"))
                          /\ handlers' = [handlers EXCEPT ![r] = "drawThrew"]
    /\ UNCHANGED <<nextReq, notWorker>>

\* self.onmessage up to the await of canvas.convertToBlob
onmessage ==
    /\ inbox # <<>>
    /\ LET r == Head(inbox) IN
       /\ inbox' = Tail(inbox)
       /\ \E ctx \in {"2d", "null"}, draws \in BOOLEAN :
             IF ctx = "null"
             THEN /\ outbox' = Append(outbox, Response(r, "error", "message"))
                  /\ handlers' = [handlers EXCEPT ![r] = "noContext"]
                  /\ UNCHANGED wdrawn
             ELSE /\ wdrawn' = wdrawn \cup {r}
                  /\ IF draws
                     THEN /\ handlers' = [handlers EXCEPT ![r] = "encoding"]
                          /\ UNCHANGED outbox
                     ELSE /\ outbox' = Append(outbox, Response(r, "error", "message"))
                          /\ handlers' = [handlers EXCEPT ![r] = "drawThrew"]
    /\ UNCHANGED <<nextReq, notWorker>>

\* the promise of canvas.convertToBlob settles and the handler resumes
convertToBlobSettles ==
    /\ \E r \in Requests, blob \in BOOLEAN :
          /\ handlers[r] = "encoding"
          /\ IF blob
             THEN /\ outbox' = Append(outbox, Response(r, "success", "blob"))
                  /\ handlers' = [handlers EXCEPT ![r] = "encoded"]
             ELSE /\ outbox' = Append(outbox, Response(r, "error", "message"))
                  /\ handlers' = [handlers EXCEPT ![r] = "encodeThrew"]
    /\ UNCHANGED <<inbox, wdrawn, nextReq, notWorker>>

InitWorker ==
    /\ IdleWorker
    /\ snap = <<>> /\ frame = NoFrame
    /\ IdleExport /\ IdlePool /\ IdleApp /\ IdleFreeform /\ IdleEditor

NextWorker == PostExportRequest \/ onmessage \/ convertToBlobSettles

SpecExportWorker == InitWorker /\ [][NextWorker]_vars

Finished == {"noContext", "drawThrew", "encodeThrew", "encoded"}

\* C3: every request whose handler has finished has exactly one response: a
\* success carrying the blob when context, drawing and encoding all succeeded,
\* otherwise an error carrying a description.  A request still queued or
\* encoding has no response yet, and a request whose context could not be
\* obtained drew nothing.
C3_OneResponse ==
    \A r \in Requests :
       /\ handlers[r] \in Finished => Cardinality(ResponsesOf(r)) = 1
       /\ handlers[r] \notin Finished => ResponsesOf(r) = {}
       /\ \A k \in ResponsesOf(r) :
             /\ outbox[k].type = "success" <=> handlers[r] = "encoded"
             /\ outbox[k].type = "success" => outbox[k].payload = "blob"
             /\ outbox[k].type = "error" => outbox[k].payload = "message"
       /\ handlers[r] = "encoded" => r \in wdrawn
       /\ handlers[r] = "noContext" => r \notin wdrawn

C3_Witness ==
    /\ handlers[1] = "encoded" /\ handlers[2] = "noContext" /\ handlers[3] = "encodeThrew"
    /\ Len(outbox) = 3 /\ outbox[1].req = 2 /\ outbox[2].req = 3

(***************************************************************************)
(* SpecExport: the export request of the interface (handleExport).         *)
(* A click is a discrete event, so the render that follows the handler's   *)
(* state updates is part of the handler; the update made by the toBlob     *)
(* callback is rendered by a later step.                                   *)
(***************************************************************************)
notExport == <<editorVars, layoutVars, workerVars, poolVars, freeformVars>>
notDrawn  == <<images, imageBitmaps, bigImageId, layoutMode, rerender, nextId>>
ObservedSizes == Viewports \cup {<<0, 0>>}

\* The composition snapshot a draw of the App reads from its render's state.
AppSnapshot(imgs, bitmaps, big, mode, vp) ==
    [layoutMode |-> mode, images |-> imgs, bitmaps |-> bitmaps, bigImageId |-> big,
     viewport |-> vp, gap |-> 16,
     globalZoom |-> I(1), mainZoom |-> I(1), bgBlur |-> 10, bgOpacity |-> Q(3, 10),
     background |-> "color", backgroundBitmap |-> FALSE,
     watermark |-> NoWatermark, watermarkBitmap |-> FALSE, textLayers |-> <<>>]

\* the draw effect: returns early without a viewport, else drawCanvas(canvas, false)
DrawEffect(imgs, bitmaps, big, mode, vp, before) ==
    IF vp[1] = 0 \/ vp[2] = 0 THEN before
    ELSE AppSnapshot(imgs, bitmaps, big, mode, vp)

\* The ResizeObserver callback: it fires when the container's size changes,
\* sets the viewport and the canvas size, which clears the canvas, and the
\* render it causes runs the draw effect.
resizeObserver ==
    /\ ~rerender
    /\ \E rect \in ObservedSizes \ {viewport} :
          /\ viewport' = rect
          /\ drawn' = DrawEffect(images, imageBitmaps, bigImageId, layoutMode, rect, Blank)
    /\ UNCHANGED <<isExporting, renderedExporting, encodes, surfaces, downloads,
                   alerts, uncaught, lastCall, notExport, notDrawn>>

\* an export request that does not look at the export state
handleExportUnguarded ==
    /\ surfaces < MaxExports
    /\ IF viewport[1] = 0 \/ viewport[2] = 0
       THEN /\ lastCall' = "rejected"
            /\ UNCHANGED <<isExporting, renderedExporting, encodes, surfaces, alerts>>
       ELSE /\ surfaces' = surfaces + 1
            /\ \E throws \in BOOLEAN :
                  IF throws
                  THEN /\ alerts' = alerts + 1
                       /\ isExporting' = FALSE /\ renderedExporting' = FALSE
                       /\ lastCall' = "threw"
                       /\ UNCHANGED encodes
                  ELSE /\ encodes' = Append(encodes, surfaces + 1)
                       /\ isExporting' = TRUE /\ renderedExporting' = TRUE
                       /\ lastCall' = "started"
                       /\ UNCHANGED alerts
    /\ UNCHANGED <<viewport, downloads, uncaught, notExport, appVars>>

\* handleExport: the guard, the off-screen surface, the drawing pass and the
\* registration of the toBlob callback, or the catch block
handleExport ==
    /\ surfaces < MaxExports
    /\ IF viewport[1] = 0 \/ viewport[2] = 0 \/ renderedExporting
       THEN /\ lastCall' = "rejected"
            /\ UNCHANGED <<isExporting, renderedExporting, encodes, surfaces, alerts>>
       ELSE /\ surfaces' = surfaces + 1
            /\ \E throws \in BOOLEAN :
                  IF throws
                  THEN /\ alerts' = alerts + 1
                       /\ isExporting' = FALSE /\ renderedExporting' = FALSE
                       /\ lastCall' = "threw"
                       /\ UNCHANGED encodes
                  ELSE /\ encodes' = Append(encodes, surfaces + 1)
                       /\ isExporting' = TRUE /\ renderedExporting' = TRUE
                       /\ lastCall' = "started"
                       /\ UNCHANGED alerts
    /\ UNCHANGED <<viewport, downloads, uncaught, notExport, appVars>>

\* the callback given to exportCanvas.toBlob
toBlobCallback ==
    /\ encodes # <<>>
    /\ encodes' = Tail(encodes)
    /\ \E blob \in BOOLEAN :
          IF blob
          THEN /\ downloads' = downloads + 1
               /\ isExporting' = FALSE
               /\ UNCHANGED uncaught
          ELSE /\ uncaught' = uncaught + 1
               /\ UNCHANGED <<downloads, isExporting>>
    /\ UNCHANGED <<viewport, renderedExporting, surfaces, alerts, lastCall, notExport, appVars>>

\* the render scheduled by the callback's setIsExporting
renderExportState ==
    /\ renderedExporting # isExporting
    /\ renderedExporting' = isExporting
    /\ UNCHANGED <<viewport, isExporting, encodes, surfaces, downloads, alerts,
                   uncaught, lastCall, notExport, appVars>>

InitExport ==
    /\ IdleExport
    /\ snap = <<>> /\ frame = NoFrame
    /\ IdleWorker /\ IdlePool /\ IdleApp /\ IdleFreeform /\ IdleEditor

NextExport == resizeObserver \/ handleExport \/ toBlobCallback \/ renderExportState

SpecExport == InitExport /\ [][NextExport]_vars

\* C1: at most one export is in flight at any time, and a call of handleExport
\* made while an export is in progress returns without creating an export
\* surface, without starting an encode and without changing the export state.
C1_OneExportInFlight ==
    /\ [](Len(encodes) <= 1)
    /\ [][(handleExport /\ isExporting) =>
             (surfaces' = surfaces /\ encodes' = encodes /\ isExporting' = isExporting)]_vars

C1_Witness == lastCall = "rejected" /\ Len(encodes) = 1 /\ isExporting /\ surfaces = 1

\* C2: every export that has started returns the export state to not-exporting
\* once its drawing pass has thrown or its encode has completed, the encode
\* failure included, so that a following export request is accepted.
C2_ExportStateReset == encodes = <<>> => ~isExporting

(***************************************************************************)
(* Spec: the image list of the App.  A handler's state updates, the render *)
(* that follows and the effects of that render form one step: the effects  *)
(* run with the values of that render.  A state update made by an effect   *)
(* is rendered by the next step, before any further event.                 *)
(***************************************************************************)
notApp == <<editorVars, layoutVars, isExporting, renderedExporting, encodes, surfaces, downloads,
            alerts, uncaught, lastCall, workerVars, poolVars, freeformVars>>

Range(arr) == {arr[k] : k \in 1..Len(arr)}
isBigLayout(mode) == mode \in {"left-big", "right-big", "top-big", "bottom-big"}

\* the effect that keeps bigImageId valid when the image list changes: the
\* value it leaves in the bigImageId state
KeepBigImageId(imgs, big) ==
    IF Len(imgs) = 0 THEN Null
    ELSE IF big = Null \/ big \notin Range(imgs) THEN imgs[1]
    ELSE big

\* The commit of a render in which the images state changed: both effects run
\* with this render's bigImageId.
CommitImages(imgs, bitmaps) ==
    /\ images' = imgs
    /\ imageBitmaps' = bitmaps
    /\ drawn' = DrawEffect(imgs, bitmaps, bigImageId, layoutMode, viewport, drawn)
    /\ bigImageId' = KeepBigImageId(imgs, bigImageId)
    /\ rerender' = (bigImageId' # bigImageId)

\* addImages(files): a fresh id for each file, a decoded handle for the files
\* that decode, then the images are appended.  The updates are functional and
\* the ids are fresh, so the events that arrive while the files decode commute
\* with it.
addImages ==
    /\ ~rerender
    /\ \E n \in 1..2 :
          /\ nextId + n - 1 <= MaxUploads
          /\ \E decoded \in SUBSET (nextId..(nextId + n - 1)) :
                CommitImages(images \o [k \in 1..n |-> nextId + k - 1],
                             imageBitmaps \cup decoded)
          /\ nextId' = nextId + n
    /\ UNCHANGED <<layoutMode, viewport, notApp>>

\* the remove button of an image tile
removeImage ==
    /\ ~rerender
    /\ \E id \in Range(images) :
          CommitImages(SelectSeq(images, LAMBDA i : i # id), imageBitmaps \ {id})
    /\ UNCHANGED <<layoutMode, nextId, viewport, notApp>>

\* the Clear Canvas button
clearCanvas ==
    /\ ~rerender
    /\ CommitImages(<<>>, {})
    /\ UNCHANGED <<layoutMode, nextId, viewport, notApp>>

\* splice(draggedIndex, 1) then splice(targetIndex, 0, draggedItem)
MoveTo(arr, from, to) ==
    LET rest == [k \in 1..(Len(arr) - 1) |-> IF k < from THEN arr[k] ELSE arr[k + 1]]
    IN  [k \in 1..Len(arr) |->
            IF k < to THEN rest[k] ELSE IF k = to THEN arr[from] ELSE rest[k - 1]]

\* handleDropOnImage(targetId) after handleDragStart(draggedId)
handleDropOnImage ==
    /\ ~rerender
    /\ \E draggedIndex \in 1..Len(images), targetIndex \in 1..Len(images) :
          /\ draggedIndex # targetIndex
          /\ CommitImages(MoveTo(images, draggedIndex, targetIndex), imageBitmaps)
    /\ UNCHANGED <<layoutMode, nextId, viewport, notApp>>

\* the Make BIG button of a tile and the big-image picker
setBigImageId ==
    /\ ~rerender
    /\ isBigLayout(layoutMode)
    /\ \E id \in Range(images) :
          /\ id # bigImageId
          /\ bigImageId' = id
          /\ drawn' = DrawEffect(images, imageBitmaps, id, layoutMode, viewport, drawn)
    /\ UNCHANGED <<images, imageBitmaps, layoutMode, rerender, nextId, viewport, notApp>>

\* the layout-mode select
setLayoutMode ==
    /\ ~rerender
    /\ \E mode \in Modes \ {layoutMode} :
          /\ layoutMode' = mode
          /\ drawn' = DrawEffect(images, imageBitmaps, bigImageId, mode, viewport, drawn)
    /\ UNCHANGED <<images, imageBitmaps, bigImageId, rerender, nextId, viewport, notApp>>

\* a Reset Settings that also empties the working set, as Clear Canvas does
resetSettingsClearing ==
    /\ ~rerender
    /\ layoutMode' = "grid"
    /\ CommitImages(<<>>, {})
    /\ UNCHANGED <<nextId, viewport, notApp>>

\* The Reset Settings button: of the state modelled here it sets layoutMode to
\* 'grid' (gap, zooms, blur, watermark and text layers are at their defaults).
resetSettings ==
    /\ ~rerender
    /\ layoutMode' = "grid"
    /\ drawn' = DrawEffect(images, imageBitmaps, bigImageId, "grid", viewport, drawn)
    /\ UNCHANGED <<images, imageBitmaps, bigImageId, rerender, nextId, viewport, notApp>>

\* the render caused by the effect's setBigImageId, and its draw effect
RenderBigImageId ==
    /\ rerender
    /\ rerender' = FALSE
    /\ drawn' = DrawEffect(images, imageBitmaps, bigImageId, layoutMode, viewport, drawn)
    /\ UNCHANGED <<images, imageBitmaps, bigImageId, layoutMode, nextId, viewport, notApp>>

Init ==
    /\ IdleApp
    /\ snap = <<>> /\ frame = NoFrame
    /\ IdleExport /\ IdleWorker /\ IdlePool /\ IdleFreeform /\ IdleEditor

Next ==
    \/ resizeObserver
    \/ addImages
    \/ removeImage
    \/ clearCanvas
    \/ handleDropOnImage
    \/ setBigImageId
    \/ setLayoutMode
    \/ resetSettings
    \/ RenderBigImageId

Spec == Init /\ [][Next]_vars

\* what the visible canvas shows, as the paint operations of its last draw
CanvasCalls == IF drawn = Blank THEN <<>> ELSE drawCanvas(drawn, FALSE).calls
TimesPainted(id) == Cardinality({k \in 1..Len(CanvasCalls) : CanvasCalls[k].id = id})

\* C9: in every draw in a big layout with N >= 1 images, all decoded, the big
\* slot shows the selected big image (the first image when none is selected or
\* the selection is not in the working set) and every image is painted exactly
\* once, the draw that follows a change of the image list included.
C9_BigLayoutPaintsEachOnce ==
    (/\ drawn # Blank
     /\ isBigLayout(drawn.layoutMode)
     /\ Len(drawn.images) >= 1
     /\ Range(drawn.images) \subseteq drawn.bitmaps)
    => /\ Len(CanvasCalls) >= 1
       /\ CanvasCalls[1].id = KeepBigImageId(drawn.images, drawn.bigImageId)
       /\ \A id \in Range(drawn.images) : TimesPainted(id) = 1

\* C11: a change of the layout mode (mode selector or Reset Settings) leaves the
\* image working set, its order and the bitmap cache unchanged, so do the two
\* handlers even when the mode stays the same, and in every state exactly one
\* layout mode of the enumeration is active.
C11_ModeChangeKeepsImages ==
    /\ [](Cardinality({m \in Modes : m = layoutMode}) = 1)
    /\ [][(layoutMode' # layoutMode \/ setLayoutMode \/ resetSettings)
             => (images' = images /\ imageBitmaps' = imageBitmaps)]_vars

C11_Witness ==
    /\ layoutMode = "freeform" /\ images = <<2, 1>> /\ imageBitmaps = {1}
    /\ drawn # Blank /\ drawn.layoutMode = "freeform" /\ drawn.images = <<2, 1>>

(***************************************************************************)
(* FreeformCanvas (src/components/FreeformCanvas.tsx): the snap search.    *)
(* An item is [id, x, y, scale, rotation]; x, y and scale are rationals.   *)
(***************************************************************************)
RAbs(a) == IF a[1] < 0 THEN <<-a[1], a[2]>> ELSE a
Floor(a) == a[1] \div a[2]
\* Math.round: the nearest integer, a half rounded up
Round(a) == Floor(RAdd(a, Q(1, 2)))

thresh == 8

\* Math.round(n / gridSize) * gridSize
GridCandidate(n, gridSize) == I(Round(RDiv(n, I(gridSize))) * gridSize)

\* The candidates of the cell grid on one axis, cell by cell in the order of the
\* loops (rows outside, columns inside): near edge, centre, far edge.
\* `along` is true for the X axis, whose cell index is the inner loop's.
CellCandidates(extent, count, gap, rows, cols, along) ==
    LET cell == RDiv(RSub(extent, I((count + 1) * gap)), I(count))
        At(k) == LET idx == IF along THEN (k - 1) % cols ELSE (k - 1) \div cols
                     lo  == RAdd(I(gap), RMul(I(idx), RAdd(cell, I(gap))))
                 IN  <<lo, RAdd(lo, RDiv(cell, I(2))), RAdd(lo, cell)>>
    IN  [j \in 1..(3 * rows * cols) |-> At(((j - 1) \div 3) + 1)[((j - 1) % 3) + 1]]

\* candX (axis = 1) or candY (axis = 2) of getSnapped, in the order of the pushes
Candidates(axis, n, sz, c, its, act) ==
    LET extent == I(sz[axis])
        canvas == <<RZero, RDiv(extent, I(2)), extent>>
        grid   == IF c.snapGrid THEN <<GridCandidate(n, c.gridSize)>> ELSE <<>>
        cells  == IF c.showCells /\ c.rows > 0 /\ c.cols > 0
                  THEN CellCandidates(extent, IF axis = 1 THEN c.cols ELSE c.rows,
                                      IF axis = 1 THEN c.cellGapX ELSE c.cellGapY,
                                      c.rows, c.cols, axis = 1)
                  ELSE <<>>
        rest   == SelectSeq(its, LAMBDA it : it.id # act)
        others == IF c.snapSmart /\ Len(its) > 1
                  THEN [k \in 1..Len(rest) |-> IF axis = 1 THEN rest[k].x ELSE rest[k].y]
                  ELSE <<>>
    IN  canvas \o grid \o cells \o others

\* a search that keeps the last candidate within the threshold
LastWithin(cands, n) ==
    LET hits == {k \in 1..Len(cands) : RLe(RAbs(RSub(cands[k], n)), I(thresh))}
    IN  IF hits = {} THEN [s |-> n, g |-> <<>>]
        ELSE LET k == CHOOSE k \in hits : \A j \in hits : j <= k
             IN  [s |-> cands[k], g |-> <<cands[k]>>]

\* a search whose threshold is exclusive
NearestStrictlyWithin(cands, n) ==
    LET Dist(k) == RAbs(RSub(cands[k], n))
        hits == {k \in 1..Len(cands) : RLt(Dist(k), I(thresh))}
    IN  IF hits = {} THEN [s |-> n, g |-> <<>>]
        ELSE LET k == CHOOSE k \in hits :
                        \A j \in hits : RLt(Dist(k), Dist(j)) \/ (Dist(k) = Dist(j) /\ k <= j)
             IN  [s |-> cands[k], g |-> <<cands[k]>>]

\* "Find nearest within threshold": the loop keeps the first candidate of the
\* least distance, when that distance is at most thresh
Nearest(cands, n) ==
    LET Dist(k) == RAbs(RSub(cands[k], n))
        hits == {k \in 1..Len(cands) : RLe(Dist(k), I(thresh))}
    IN  IF hits = {} THEN [s |-> n, g |-> <<>>]
        ELSE LET k == CHOOSE k \in hits :
                        \A j \in hits : RLt(Dist(k), Dist(j)) \/ (Dist(k) = Dist(j) /\ k <= j)
             IN  [s |-> cands[k], g |-> <<cands[k]>>]

\* the element of a set of one element
Only(S) == CHOOSE v \in S : TRUE

\* getSnapped(nx, ny, ignoreSnap) with the state it reads given explicitly
getSnappedIn(nx, ny, ignoreSnap, sz, c, its, act) ==
    IF ignoreSnap THEN [x |-> nx, y |-> ny, guidesX |-> <<>>, guidesY |-> <<>>]
    ELSE Only({ [x |-> bx.s, y |-> by.s, guidesX |-> bx.g, guidesY |-> by.g] :
                   bx \in {Nearest(candX, nx) : candX \in {Candidates(1, nx, sz, c, its, act)}},
                   by \in {Nearest(candY, ny) : candY \in {Candidates(2, ny, sz, c, its, act)}} })

\* getSnapped(nx, ny, ignoreSnap)
getSnapped(nx, ny, ignoreSnap) ==
    getSnappedIn(nx, ny, ignoreSnap, size, controls, items, activeId)

(***************************************************************************)
(* SpecSnap: getSnapped applied to a position, then to what it returned.   *)
(***************************************************************************)
MaxSnaps == 2

Item(id, x, y, scale, rotation) ==
    [id |-> id, x |-> x, y |-> y, scale |-> scale, rotation |-> rotation]
\* rotation 0, as (cos, sin) of the angle
Unrotated == <<I(1), I(0)>>

SnapXs == {Q(k, 2) : k \in {-17, -16, -15, -1, 0, 1, 7, 15, 16, 17}}
            \cup {I(k) : k \in {385, 391, 392, 393, 397, 398, 399, 400, 402, 403,
                                404, 405, 406, 409, 413, 414, 416}}
SnapYs == {I(-3), I(150), I(292), Q(617, 2)}
SnapSizes == {<<800, 600>>, <<810, 600>>}
SnapControls ==
    { k \in {[DefaultControls EXCEPT !.snapGrid = g, !.showCells = c, !.snapSmart = s,
                                       !.gridSize = n] :
                g \in BOOLEAN, c \in BOOLEAN, s \in BOOLEAN, n \in {40, 8}} :
        k.gridSize = 40 \/ k.snapGrid }
SnapItems ==
    { <<Item(1, I(100), I(100), Q(2, 5), Unrotated)>>,
      <<Item(2, I(406), I(300), Q(2, 5), Unrotated), Item(1, I(100), I(100), Q(2, 5), Unrotated),
        Item(3, I(5), Q(595, 2), Q(2, 5), Unrotated)>> }

notSnap == <<editorVars, layoutVars, exportVars, workerVars, poolVars, appVars,
             items, activeId, size, controls, draggingRef, dragOffsetRef, rotatingRef,
             lastGuidesRef, preloads, lastEvent>>

\* getSnapped called on the position it returned last (first, on snapArgs)
ApplyGetSnapped ==
    /\ Len(snapResults) < MaxSnaps
    /\ LET at == IF snapResults = <<>> THEN snapArgs
                 ELSE <<snapResults[Len(snapResults)].x, snapResults[Len(snapResults)].y>>
       IN  snapResults' = Append(snapResults, getSnapped(at[1], at[2], FALSE))
    /\ UNCHANGED <<snapArgs, notSnap>>

InitSnap ==
    /\ snapArgs \in SnapXs \X SnapYs
    /\ size \in SnapSizes
    /\ controls \in SnapControls
    /\ items \in SnapItems
    /\ activeId = 1
    /\ snapResults = <<>>
    /\ draggingRef = FALSE /\ dragOffsetRef = NoOffset /\ rotatingRef = FALSE
    /\ lastGuidesRef = NoGuides /\ preloads = <<>> /\ lastEvent = NoEvent
    /\ snap = <<>> /\ frame = NoFrame
    /\ IdleExport /\ IdleWorker /\ IdlePool /\ IdleApp /\ IdleEditor

NextSnap == ApplyGetSnapped

SpecSnap == InitSnap /\ [][NextSnap]_vars

\* C13: getSnapped is idempotent: for every position and snap configuration,
\* getSnapped applied to the position it returned gives that position again.
C13_SnapIdempotent ==
    Len(snapResults) >= 2 =>
        \A k \in 2..Len(snapResults) :
            /\ snapResults[k].x = snapResults[k - 1].x
            /\ snapResults[k].y = snapResults[k - 1].y

\* a position that snapped on both axes, and the second application
C13_Witness ==
    /\ Len(snapResults) = 2
    /\ snapResults[1].x # snapArgs[1] /\ snapResults[1].y # snapArgs[2]
    /\ snapResults[1].guidesX # <<>> /\ snapResults[2].guidesX = snapResults[1].guidesX

\* One axis of a getSnapped result as C14 states it: the nearest candidate when one
\* lies within the threshold, with one guide line at it; else the raw coordinate
\* and no guide line.
AxisNearestOrRaw(cands, n, out, guides) ==
    LET Dist(c) == RAbs(RSub(c, n))
        within  == {k \in 1..Len(cands) : RLe(Dist(cands[k]), I(thresh))}
    IN  IF within # {}
        THEN /\ \E k \in within : out = cands[k]
             /\ \A k \in 1..Len(cands) : RLe(Dist(out), Dist(cands[k]))
             /\ guides = <<out>>
        ELSE out = n /\ guides = <<>>

\* the items with the coordinates of one axis replaced
WithAxis(its, axis, v) ==
    [k \in 1..Len(its) |-> IF axis = 1 THEN [its[k] EXCEPT !.x = RAdd(v, I(k))]
                                       ELSE [its[k] EXCEPT !.y = RAdd(v, I(k))]]

\* other inputs and candidates for the Y axis, and for the X axis
OtherYs == { [n |-> I(300), extent |-> 600, gap |-> 16, at |-> I(300)],
             [n |-> I(-3),  extent |-> 450, gap |-> 0,  at |-> I(7)] }
OtherXs == { [n |-> I(400), extent |-> 800, gap |-> 16, at |-> I(400)],
             [n |-> Q(5, 2), extent |-> 640, gap |-> 0,  at |-> I(9)] }

\* C14: getSnapped decides each axis on its own: an axis gets the candidate nearest
\* to its raw coordinate when that distance is at most 8 and the raw coordinate
\* otherwise, a guide line is reported for an axis exactly when it snapped, and the
\* result of an axis does not change with the input or the candidates of the other.
C14_AxesIndependent ==
    Len(snapResults) >= 1 =>
      LET r == snapResults[1]
          nx == snapArgs[1]
          ny == snapArgs[2]
      IN  /\ AxisNearestOrRaw(Candidates(1, nx, size, controls, items, activeId),
                              nx, r.x, r.guidesX)
          /\ AxisNearestOrRaw(Candidates(2, ny, size, controls, items, activeId),
                              ny, r.y, r.guidesY)
          /\ \A o \in OtherYs :
                LET alt == getSnappedIn(nx, o.n, FALSE, <<size[1], o.extent>>,
                                        [controls EXCEPT !.cellGapY = o.gap],
                                        WithAxis(items, 2, o.at), activeId)
                IN  alt.x = r.x /\ alt.guidesX = r.guidesX
          /\ \A o \in OtherXs :
                LET alt == getSnappedIn(o.n, ny, FALSE, <<o.extent, size[2]>>,
                                        [controls EXCEPT !.cellGapX = o.gap],
                                        WithAxis(items, 1, o.at), activeId)
                IN  alt.y = r.y /\ alt.guidesY = r.guidesY

\* X snapped, to a candidate exactly 8 away, and Y did not
C14_Witness ==
    /\ Len(snapResults) = 1
    /\ snapArgs[1] = I(392) /\ snapResults[1].x = I(400) /\ snapResults[1].guidesX = <<I(400)>>
    /\ snapResults[1].y = snapArgs[2] /\ snapResults[1].guidesY = <<>>

\* ---------------------------------------------------------------------------
\* FreeformCanvas: the native mouse, key and wheel listeners.
\* A rotation is kept as (cos, sin) of its angle, a pointer as canvas coordinates
\* (what clientToCanvas returns).
\* ---------------------------------------------------------------------------
MaxEvents == 3

RNeg(a) == <<-a[1], a[2]>>

\* Math.atan2(dy, dx) as (cos, sin): the unit vector along (dx, dy); angle 0 for
\* (0, 0). The pointer offsets of the model have a rational length.
Atan2(dy, dx) ==
    IF dx[1] = 0 /\ dy[1] = 0 THEN Unrotated
    ELSE LET a   == dx[1] * dy[2]
             b   == dy[1] * dx[2]
             len == CHOOSE r \in 1..(Abs(a) + Abs(b)) : r * r = a * a + b * b
         IN  <<Q(a, len), Q(b, len)>>

\* naturalWidth || 1, naturalHeight || 1 of an item's image
NaturalSize(id) == BitmapSize(id)

\* whether the item contains the point, in the item's own unrotated, unscaled space
Contains(it, px, py) ==
    LET iw  == NaturalSize(it.id)[1]
        ih  == NaturalSize(it.id)[2]
        tx  == RSub(px, it.x)
        ty  == RSub(py, it.y)
        cos == it.rotation[1]
        sin == RNeg(it.rotation[2])
        rx  == RDiv(RSub(RMul(tx, cos), RMul(ty, sin)), it.scale)
        ry  == RDiv(RAdd(RMul(tx, sin), RMul(ty, cos)), it.scale)
    IN  /\ RLe(Q(-iw, 2), rx) /\ RLe(rx, Q(iw, 2))
        /\ RLe(Q(-ih, 2), ry) /\ RLe(ry, Q(ih, 2))

\* a mutant: the first item containing the point
hitTestFirst(its, px, py) ==
    LET hits == {i \in 1..Len(its) : Contains(its[i], px, py)}
    IN  IF hits = {} THEN 0 ELSE CHOOSE i \in hits : \A j \in hits : j >= i

\* hitTest over a list: the index of the last item containing the point, 0 for null
hitTestIn(its, px, py) ==
    LET hits == {i \in 1..Len(its) : Contains(its[i], px, py)}
    IN  IF hits = {} THEN 0 ELSE CHOOSE i \in hits : \A j \in hits : j <= i

hitTest(px, py) == hitTestIn(items, px, py)

\* the index of the item with the id, 0 when there is none
IndexOf(its, id) ==
    IF \E i \in 1..Len(its) : its[i].id = id
    THEN CHOOSE i \in 1..Len(its) : its[i].id = id
    ELSE 0

\* splice(idx, 1) then push
BringToTop(its, idx) ==
    [k \in 1..Len(its) |-> IF k < idx THEN its[k]
                           ELSE IF k < Len(its) THEN its[k + 1] ELSE its[idx]]

\* prev.map(p => p.id === id ? {...p, ...} : p), for position, rotation and scale
WithPosition(its, id, x, y) ==
    [k \in 1..Len(its) |-> IF its[k].id = id THEN [its[k] EXCEPT !.x = x, !.y = y] ELSE its[k]]
WithRotation(its, id, ang) ==
    [k \in 1..Len(its) |-> IF its[k].id = id THEN [its[k] EXCEPT !.rotation = ang] ELSE its[k]]
WithScale(its, id, s) ==
    [k \in 1..Len(its) |-> IF its[k].id = id THEN [its[k] EXCEPT !.scale = s] ELSE its[k]]

\* the state of the canvas a listener starts from, and the record of the listener run
Before ==
    [items |-> items, activeId |-> activeId, draggingRef |-> draggingRef,
     dragOffsetRef |-> dragOffsetRef, rotatingRef |-> rotatingRef,
     lastGuidesRef |-> lastGuidesRef]
Event(type, x, y, mod, key) ==
    [type |-> type, x |-> x, y |-> y, mod |-> mod, key |-> key, before |-> Before,
     n |-> lastEvent.n + 1]
EventsLeft == lastEvent.n < MaxEvents

notCanvas == <<editorVars, layoutVars, exportVars, workerVars, poolVars, appVars,
               size, controls, preloads, snapArgs, snapResults>>

\* where the pointer is pressed
Pointers == { <<I(398), I(300)>>, <<I(330), I(240)>>, <<I(100), I(100)>>, <<I(700), I(20)>> }

\* onMouseDown: the topmost item under the pointer becomes active and the last of
\* the list and a drag of it starts; on no item the active item is cleared.
onMouseDownAt(x, y) ==
    \E hit \in {hitTest(x, y)} :
        /\ IF hit # 0
           THEN /\ draggingRef' = TRUE
                /\ activeId' = items[hit].id
                /\ items' = BringToTop(items, hit)
                /\ dragOffsetRef' = [dx |-> RSub(x, items[hit].x), dy |-> RSub(y, items[hit].y)]
           ELSE /\ activeId' = Null
                /\ dragOffsetRef' = NoOffset
                /\ UNCHANGED <<draggingRef, items>>
        /\ lastEvent' = Event("mousedown", x, y, FALSE, "")
        /\ UNCHANGED <<rotatingRef, lastGuidesRef>>

onMouseDown ==
    /\ EventsLeft
    /\ \E p \in Pointers : onMouseDownAt(p[1], p[2])
    /\ UNCHANGED notCanvas

\* onMouseMoveRotate on a list: with the rotate key held, the active item turns
\* towards the pointer.
onMouseMoveRotateIn(its, x, y) ==
    IF ~rotatingRef \/ activeId = Null \/ IndexOf(its, activeId) = 0 THEN its
    ELSE LET it == its[IndexOf(its, activeId)]
         IN  WithRotation(its, activeId, Atan2(RSub(y, it.y), RSub(x, it.x)))

\* onMouseMove: a drag in progress puts the active item at the pointer less the
\* grab offset, snapped when a snap option is on and Alt is not held.
Dragging == draggingRef /\ dragOffsetRef # NoOffset /\ activeId # Null
Snapped(snapped) ==
    [items |-> WithPosition(items, activeId, snapped.x, snapped.y),
     guides |-> [vx |-> snapped.guidesX, vy |-> snapped.guidesY]]
onMouseMoveTo(x, y, altDown) ==
    LET nx == RSub(x, dragOffsetRef.dx)
        ny == RSub(y, dragOffsetRef.dy)
    IN  IF controls.snapSmart \/ controls.snapGrid \/ controls.showCells
        THEN Only({Snapped(s) : s \in {getSnapped(nx, ny, altDown)}})
        ELSE [items |-> WithPosition(items, activeId, nx, ny), guides |-> lastGuidesRef]

\* whether the canvas is the target of a mouse event at the point
OverCanvas(x, y) ==
    /\ RLe(RZero, x) /\ RLt(x, I(size[1]))
    /\ RLe(RZero, y) /\ RLt(y, I(size[2]))

\* One mousemove event. The canvas listener onMouseMoveRotate and the window
\* listener onMouseMove both receive it when the pointer is over the canvas, the
\* canvas first; both read the item list of before the event through itemsRef and
\* queue an update of their own fields.
mousemoveAt(x, y, altDown) ==
    /\ \E rotated \in {IF OverCanvas(x, y) THEN onMouseMoveRotateIn(items, x, y) ELSE items} :
          IF Dragging
          THEN \E moved \in {onMouseMoveTo(x, y, altDown)} :
                  /\ items' = [k \in 1..Len(items) |->
                                  [rotated[k] EXCEPT !.x = moved.items[k].x,
                                                     !.y = moved.items[k].y]]
                  /\ lastGuidesRef' = moved.guides
          ELSE /\ items' = rotated
               /\ UNCHANGED lastGuidesRef
    /\ lastEvent' = Event("mousemove", x, y, altDown, "")
    /\ UNCHANGED <<activeId, draggingRef, dragOffsetRef, rotatingRef>>

\* Where the pointer moves to, and whether Alt is held. With the rotate key held
\* the pointer is placed relative to the active item's centre, at offsets of
\* rational length.
RotateOffsets == { <<I(30), I(40)>>, <<I(0), I(-50)>> }
MoveInputs ==
    IF rotatingRef /\ activeId # Null /\ IndexOf(items, activeId) # 0
    THEN LET it == items[IndexOf(items, activeId)]
         IN  {<<RAdd(it.x, o[1]), RAdd(it.y, o[2]), FALSE>> : o \in RotateOffsets}
             \cup {<<I(-5), I(300), FALSE>>}
    ELSE IF Dragging
    THEN {<<p[1], p[2], altDown>> :
             p \in {<<I(333), I(245)>>, <<I(700), I(20)>>, <<I(-5), I(300)>>},
             altDown \in BOOLEAN}
    ELSE {<<I(333), I(245), FALSE>>}

mousemove ==
    /\ EventsLeft
    /\ \E m \in MoveInputs : mousemoveAt(m[1], m[2], m[3])
    /\ UNCHANGED notCanvas

\* onMouseUp
onMouseUp ==
    /\ EventsLeft
    /\ draggingRef' = FALSE
    /\ dragOffsetRef' = NoOffset
    /\ rotatingRef' = FALSE
    /\ lastGuidesRef' = NoGuides
    /\ lastEvent' = Event("mouseup", RZero, RZero, FALSE, "")
    /\ UNCHANGED <<items, activeId, notCanvas>>

\* a mutant: the nudge without the snap search
onKeyDownNoSnap(key, shiftKey) ==
    LET step == IF shiftKey THEN 10 ELSE 1
        dx == CASE key = "ArrowLeft" -> -step [] key = "ArrowRight" -> step [] OTHER -> 0
        dy == CASE key = "ArrowUp" -> -step [] key = "ArrowDown" -> step [] OTHER -> 0
        cur == items[IndexOf(items, activeId)]
    IN  /\ rotatingRef' = (IF key = "r" THEN TRUE ELSE rotatingRef)
        /\ IF activeId # Null /\ (dx # 0 \/ dy # 0) /\ IndexOf(items, activeId) # 0
           THEN /\ lastGuidesRef' = NoGuides
                /\ items' = WithPosition(items, activeId, RAdd(cur.x, I(dx)), RAdd(cur.y, I(dy)))
           ELSE UNCHANGED <<lastGuidesRef, items>>
        /\ lastEvent' = Event("keydown", RZero, RZero, shiftKey, key)
        /\ UNCHANGED <<activeId, draggingRef, dragOffsetRef>>

\* onKeyDown: 'r' holds the rotate key; an arrow key with an active item nudges
\* it by 1, or by 10 with Shift, and snaps the result.
KeyPresses ==
    { <<"r", FALSE>>, <<"ArrowLeft", FALSE>>, <<"ArrowRight", FALSE>>, <<"ArrowRight", TRUE>>,
      <<"ArrowUp", TRUE>>, <<"ArrowDown", FALSE>>, <<"a", FALSE>> }
onKeyDownOf(key, shiftKey) ==
    LET step == IF shiftKey THEN 10 ELSE 1
        dx == CASE key = "ArrowLeft" -> -step [] key = "ArrowRight" -> step [] OTHER -> 0
        dy == CASE key = "ArrowUp" -> -step [] key = "ArrowDown" -> step [] OTHER -> 0
        cur == items[IndexOf(items, activeId)]
    IN  /\ rotatingRef' = (IF key = "r" THEN TRUE ELSE rotatingRef)
        /\ IF activeId # Null /\ (dx # 0 \/ dy # 0) /\ IndexOf(items, activeId) # 0
           THEN \E snapped \in {getSnapped(RAdd(cur.x, I(dx)), RAdd(cur.y, I(dy)), FALSE)} :
                   /\ lastGuidesRef' = [vx |-> snapped.guidesX, vy |-> snapped.guidesY]
                   /\ items' = WithPosition(items, activeId, snapped.x, snapped.y)
           ELSE UNCHANGED <<lastGuidesRef, items>>
        /\ lastEvent' = Event("keydown", RZero, RZero, shiftKey, key)
        /\ UNCHANGED <<activeId, draggingRef, dragOffsetRef>>

onKeyDown ==
    /\ EventsLeft
    /\ \E k \in KeyPresses : onKeyDownOf(k[1], k[2])
    /\ UNCHANGED notCanvas

\* onKeyUp
onKeyUp ==
    /\ EventsLeft
    /\ \E key \in {"r", "a"} :
          /\ rotatingRef' = (IF key = "r" THEN FALSE ELSE rotatingRef)
          /\ lastEvent' = Event("keyup", RZero, RZero, FALSE, key)
    /\ UNCHANGED <<items, activeId, draggingRef, dragOffsetRef, lastGuidesRef, notCanvas>>

\* The states the listeners start from: the items as a preload and earlier drags
\* left them, the item last clicked, and the snap options.
SnapOff == [DefaultControls EXCEPT !.snapGrid = FALSE, !.showCells = FALSE, !.snapSmart = FALSE]
Overlapping(x, y) ==
    << Item(1, x, y, Q(2, 5), Unrotated), Item(2, I(440), I(330), Q(2, 5), Unrotated),
       Item(3, I(100), I(100), Q(2, 5), <<Q(3, 5), Q(4, 5)>>) >>
FreeformInits ==
    { [items |-> Overlapping(I(395), I(290)), activeId |-> Null, controls |-> DefaultControls],
      [items |-> Overlapping(I(400), I(300)), activeId |-> 1,    controls |-> DefaultControls],
      [items |-> Overlapping(I(395), I(290)), activeId |-> 1,    controls |-> SnapOff] }

InitFreeform ==
    /\ \E s \in FreeformInits :
          items = s.items /\ activeId = s.activeId /\ controls = s.controls
    /\ size = <<800, 600>>
    /\ draggingRef = FALSE /\ dragOffsetRef = NoOffset /\ rotatingRef = FALSE
    /\ lastGuidesRef = NoGuides /\ preloads = <<>> /\ lastEvent = NoEvent
    /\ snapArgs = <<>> /\ snapResults = <<>>
    /\ snap = <<>> /\ frame = NoFrame
    /\ IdleExport /\ IdleWorker /\ IdlePool /\ IdleApp /\ IdleEditor

NextFreeform == onMouseDown \/ mousemove \/ onMouseUp \/ onKeyDown \/ onKeyUp

SpecFreeform == InitFreeform /\ [][NextFreeform]_vars

\* the ids of a list of items, in order, and the list without one id
ItemIds(its) == [k \in 1..Len(its) |-> its[k].id]
Without(its, id) == SelectSeq(its, LAMBDA it : it.id # id)

\* C20: mouse-down picks, among the items containing the pointer, the one latest in
\* paint order, makes it the active item and moves it to the end of the paint order,
\* the other items keeping their relative order and no item changing; mouse-down on
\* no item clears the active item and starts no drag: a pointer move after it moves
\* no item.
C20_MouseDownPicksTopmost ==
    /\ lastEvent.type = "mousedown" =>
          LET b == lastEvent.before
              containing == {k \in 1..Len(b.items) : Contains(b.items[k], lastEvent.x, lastEvent.y)}
          IN  IF containing # {}
              THEN \E k \in containing :
                      /\ \A j \in containing : j <= k
                      /\ activeId = b.items[k].id
                      /\ items[Len(items)] = b.items[k]
                      /\ Without(items, activeId) = Without(b.items, activeId)
                      /\ Len(items) = Len(b.items)
                      /\ draggingRef
              ELSE /\ activeId = Null
                   /\ items = b.items
                   /\ ~Dragging
    /\ (lastEvent.type = "mousemove" /\ lastEvent.before.activeId = Null) =>
          items = lastEvent.before.items

\* a mouse-down where two items contain the pointer and the upper one was not the
\* last of the list
C20_Witness ==
    /\ lastEvent.type = "mousedown"
    /\ Cardinality({k \in 1..Len(items) :
                       Contains(lastEvent.before.items[k], lastEvent.x, lastEvent.y)}) = 2
    /\ ItemIds(lastEvent.before.items) = <<1, 2, 3>>
    /\ ItemIds(items) = <<1, 3, 2>>
    /\ activeId = 2

\* the item with the id
ItemOf(its, id) == its[IndexOf(its, id)]

\* a drag was in progress when the last listener ran
WasDragging ==
    /\ lastEvent.before.draggingRef
    /\ lastEvent.before.dragOffsetRef # NoOffset
    /\ lastEvent.before.activeId # Null

\* the raw position of the drag frame of the last event: pointer less grab offset
RawX == RSub(lastEvent.x, lastEvent.before.dragOffsetRef.dx)
RawY == RSub(lastEvent.y, lastEvent.before.dragOffsetRef.dy)

\* C15: a drag frame processed while Alt is held puts the active item exactly at
\* the pointer position less the grab offset and leaves no guide line up, whatever
\* the snap options and the candidates nearby.
C15_AltDragIsRaw ==
    (lastEvent.type = "mousemove" /\ lastEvent.mod /\ WasDragging) =>
        /\ ItemOf(items, activeId).x = RawX
        /\ ItemOf(items, activeId).y = RawY
        /\ lastGuidesRef = NoGuides

\* C16: a drag frame without Alt whose raw x is within the threshold of
\* canvasWidth/2, no other candidate being nearer, puts the item's x at
\* canvasWidth/2 with exactly one vertical guide line, at canvasWidth/2.
C16_DragSnapsToCentre ==
    (lastEvent.type = "mousemove" /\ ~lastEvent.mod /\ WasDragging) =>
        LET centre == RDiv(I(size[1]), I(2))
            cands  == Candidates(1, RawX, size, controls,
                                 lastEvent.before.items, lastEvent.before.activeId)
        IN  (/\ RLe(RAbs(RSub(RawX, centre)), I(thresh))
             /\ \A k \in 1..Len(cands) :
                   cands[k] = centre \/ RLt(RAbs(RSub(RawX, centre)), RAbs(RSub(RawX, cands[k]))))
            => /\ ItemOf(items, activeId).x = centre
               /\ lastGuidesRef.vx = <<centre>>

\* the step of the last key press along each axis
KeyDX ==
    CASE lastEvent.key = "ArrowLeft"  -> IF lastEvent.mod THEN -10 ELSE -1
      [] lastEvent.key = "ArrowRight" -> IF lastEvent.mod THEN 10 ELSE 1
      [] OTHER -> 0
KeyDY ==
    CASE lastEvent.key = "ArrowUp"   -> IF lastEvent.mod THEN -10 ELSE -1
      [] lastEvent.key = "ArrowDown" -> IF lastEvent.mod THEN 10 ELSE 1
      [] OTHER -> 0
WasNudge ==
    /\ lastEvent.type = "keydown"
    /\ lastEvent.before.activeId # Null
    /\ KeyDX # 0 \/ KeyDY # 0

\* whether b lies from a in the direction of the step d
Towards(a, b, d) == IF d > 0 THEN RLt(a, b) ELSE RLt(b, a)

\* C18 as stated: every arrow-key press with an active item moves the item in the
\* direction of the key.
C18_ArrowAlwaysMoves ==
    WasNudge =>
        LET was == ItemOf(lastEvent.before.items, activeId)
            now == ItemOf(items, activeId)
        IN  /\ KeyDX # 0 => Towards(was.x, now.x, KeyDX)
            /\ KeyDY # 0 => Towards(was.y, now.y, KeyDY)

\* C18, amended: an arrow-key press with an active item puts the item where the snap
\* search puts the stepped position: on each axis the nearest candidate within the
\* threshold of the stepped coordinate, else the stepped coordinate. With Shift
\* (step 10) the pressed coordinate always moves in the direction of the key.
C18_NudgeThenSnap ==
    WasNudge =>
        LET was == ItemOf(lastEvent.before.items, activeId)
            now == ItemOf(items, activeId)
            tox == RAdd(was.x, I(KeyDX))
            toy == RAdd(was.y, I(KeyDY))
        IN  /\ AxisNearestOrRaw(Candidates(1, tox, size, controls, lastEvent.before.items, activeId),
                                tox, now.x, lastGuidesRef.vx)
            /\ AxisNearestOrRaw(Candidates(2, toy, size, controls, lastEvent.before.items, activeId),
                                toy, now.y, lastGuidesRef.vy)
            /\ (lastEvent.mod /\ KeyDX # 0) => Towards(was.x, now.x, KeyDX)
            /\ (lastEvent.mod /\ KeyDY # 0) => Towards(was.y, now.y, KeyDY)

\* a step of 1 from a snapped position, snapped back to it
C18_Witness ==
    /\ WasNudge /\ lastEvent.key = "ArrowRight" /\ ~lastEvent.mod
    /\ ItemOf(items, activeId).x = ItemOf(lastEvent.before.items, activeId).x
    /\ lastGuidesRef.vx = <<ItemOf(items, activeId).x>>

\* C19: while the rotate key is held, a pointer move over the canvas sets the active
\* item's rotation to the angle from its centre to the pointer and leaves its
\* position unchanged: one pointer move never both translates and rotates the item.
C19_RotateDoesNotTranslate ==
    (/\ lastEvent.type = "mousemove"
     /\ lastEvent.before.rotatingRef
     /\ lastEvent.before.activeId # Null
     /\ OverCanvas(lastEvent.x, lastEvent.y)) =>
        LET was == ItemOf(lastEvent.before.items, activeId)
            now == ItemOf(items, activeId)
        IN  /\ now.rotation = Atan2(RSub(lastEvent.y, was.y), RSub(lastEvent.x, was.x))
            /\ now.x = was.x /\ now.y = was.y

\* ---------------------------------------------------------------------------
\* onWheel
\* ---------------------------------------------------------------------------
RMin(a, b) == IF RLe(a, b) THEN a ELSE b
Sign(n) == IF n > 0 THEN 1 ELSE IF n < 0 THEN -1 ELSE 0

\* a mutant: the scale is not clamped
onWheelUnclamped(deltaY) ==
    LET delta == RMul(I(Sign(deltaY)), Q(-8, 100))
    IN  /\ IF activeId = Null \/ IndexOf(items, activeId) = 0
           THEN UNCHANGED items
           ELSE items' = WithScale(items, activeId,
                                   RMul(ItemOf(items, activeId).scale, RAdd(I(1), delta)))
        /\ lastEvent' = Event("wheel", I(deltaY), RZero, FALSE, "")

\* onWheel: the active item's scale times 1 + sign(deltaY) * -0.08, kept within
\* [0.1, 5]; nothing without an active item. The event record holds deltaY as x.
onWheelOf(deltaY) ==
    LET delta == RMul(I(Sign(deltaY)), Q(-8, 100))
    IN  /\ IF activeId = Null \/ IndexOf(items, activeId) = 0
           THEN UNCHANGED items
           ELSE items' = WithScale(items, activeId,
                            RMin(I(5), RMax(Q(1, 10),
                                 RMul(ItemOf(items, activeId).scale, RAdd(I(1), delta)))))
        /\ lastEvent' = Event("wheel", I(deltaY), RZero, FALSE, "")

onWheel ==
    /\ EventsLeft
    /\ \E deltaY \in {-100, 0, 100} : onWheelOf(deltaY)
    /\ UNCHANGED <<activeId, draggingRef, dragOffsetRef, rotatingRef, lastGuidesRef, notCanvas>>

\* the scales the wheel starts from: the preload's 0.4, and scales next to the limits
WheelScales == {Q(2, 5), Q(1, 10), Q(21, 200), Q(24, 5), I(5)}

InitWheel ==
    /\ \E s \in WheelScales :
          items = << Item(1, I(395), I(290), s, Unrotated),
                     Item(2, I(440), I(330), Q(2, 5), <<Q(3, 5), Q(4, 5)>>) >>
    /\ activeId \in {Null, 1, 2}
    /\ controls = DefaultControls
    /\ size = <<800, 600>>
    /\ draggingRef = FALSE /\ dragOffsetRef = NoOffset /\ rotatingRef = FALSE
    /\ lastGuidesRef = NoGuides /\ preloads = <<>> /\ lastEvent = NoEvent
    /\ snapArgs = <<>> /\ snapResults = <<>>
    /\ snap = <<>> /\ frame = NoFrame
    /\ IdleExport /\ IdleWorker /\ IdlePool /\ IdleApp /\ IdleEditor

NextWheel == onWheel

SpecWheel == InitWheel /\ [][NextWheel]_vars

\* C17: a wheel event with an active item multiplies that item's scale by 1.08
\* (scroll up, deltaY < 0) or 0.92 (scroll down, deltaY > 0) and clamps the result
\* to [0.1, 5]; the item's position and rotation and every other item are unchanged,
\* and with no active item nothing changes.
C17_WheelScalesActive ==
    lastEvent.type = "wheel" =>
        LET was == lastEvent.before.items
            factor == IF RLt(lastEvent.x, RZero) THEN Q(108, 100)
                      ELSE IF RLt(RZero, lastEvent.x) THEN Q(92, 100) ELSE I(1)
            Clamp(s) == IF RLt(s, Q(1, 10)) THEN Q(1, 10) ELSE IF RLt(I(5), s) THEN I(5) ELSE s
        IN  /\ activeId = lastEvent.before.activeId
            /\ Len(items) = Len(was)
            /\ \A k \in 1..Len(was) :
                  IF was[k].id = activeId
                  THEN items[k] = [was[k] EXCEPT !.scale = Clamp(RMul(was[k].scale, factor))]
                  ELSE items[k] = was[k]

\* a scroll up of the active item that was clamped at 5
C17_Witness ==
    /\ lastEvent.type = "wheel"
    /\ RLt(lastEvent.x, RZero)
    /\ activeId = 1
    /\ lastEvent.before.items[1].scale = Q(24, 5)
    /\ items[1].scale = I(5)
    /\ items[2] = lastEvent.before.items[2]

\* ---------------------------------------------------------------------------
\* FreeformCanvas: the preload effect and the auto-tidy effect.
\* A preload is the async function one run of the effect started: the image list
\* it walks, the items itemsRef held when it started, its `cancelled` flag, the
\* number of images it has awaited and whether it has returned.
\* ---------------------------------------------------------------------------
MaxPreloads == 2

\* (Math.cos(angle), Math.sin(angle)) for angle = idx / n of a turn: exact on the
\* quarter turns, to three decimals elsewhere
CosSin(idx, n) ==
    CASE (4 * idx) % n = 0 ->
            LET q == (4 * idx) \div n
            IN  CASE q % 4 = 0 -> <<I(1), I(0)>>
                  [] q % 4 = 1 -> <<I(0), I(1)>>
                  [] q % 4 = 2 -> <<I(-1), I(0)>>
                  [] OTHER     -> <<I(0), I(-1)>>
      [] n = 3 /\ idx = 1 -> <<Q(-1, 2), Q(866, 1000)>>
      [] n = 3 /\ idx = 2 -> <<Q(-1, 2), Q(-866, 1000)>>
      [] n = 5 /\ idx = 1 -> <<Q(309, 1000), Q(951, 1000)>>
      [] n = 5 /\ idx = 2 -> <<Q(-809, 1000), Q(588, 1000)>>
      [] n = 5 /\ idx = 3 -> <<Q(-809, 1000), Q(-588, 1000)>>
      [] OTHER            -> <<Q(309, 1000), Q(-951, 1000)>>

\* the item a preload makes for an image that had none: on a ring about the centre
NewItem(id, idx, n, sz) ==
    LET radius == I(60 + (idx % 5) * 25)
        cs     == CosSin(idx, Max(1, n))
    IN  Item(id, RAdd(Q(sz[1], 2), RMul(cs[1], radius)),
                 RAdd(Q(sz[2], 2), RMul(cs[2], radius)), Q(4, 10), Unrotated)

\* `next` of a preload that awaited every image: the existing item of an image,
\* else a new one, in the order of the images
NextItems(p, sz) ==
    [k \in 1..Len(p.images) |->
        IF IndexOf(p.existing, p.images[k]) # 0
        THEN ItemOf(p.existing, p.images[k])
        ELSE NewItem(p.images[k], k - 1, Len(p.images), sz)]

\* images that failed to load: their naturalWidth is 0
BrokenImages == {7}
naturalWidth(id) == IF id \in BrokenImages THEN 0 ELSE NaturalSize(id)[1]

\* a tidy that stacks every item in the first cell: col and row are not used
tidyArrangePiled(its, w, tw, gap, mc) ==
    [k \in 1..Len(its) |->
        [its[k] EXCEPT
            !.scale = Q(tw, IF naturalWidth(its[k].id) = 0 THEN 1 ELSE naturalWidth(its[k].id)),
            !.x = RAdd(I(gap), Q(tw, 2)),
            !.y = RAdd(I(gap), Q(tw, 2))]]

\* tidyArrange with the size and knobs of the render that made it: uniform
\* thumbnails in rows
tidyArrangeIn(its, w, tw, gap, mc) ==
    LET cols          == Max(1, Min(mc, (w - gap) \div (tw + gap)))
        effectiveCols == Max(1, cols)
    IN  [k \in 1..Len(its) |->
            LET idx == k - 1
                iw  == IF naturalWidth(its[k].id) = 0 THEN 1 ELSE naturalWidth(its[k].id)
                col == idx % effectiveCols
                row == idx \div effectiveCols
            IN  [its[k] EXCEPT
                    !.scale = Q(tw, iw),
                    !.x = RAdd(I(gap + col * (tw + gap)), Q(tw, 2)),
                    !.y = RAdd(I(gap + row * (tw + gap)), Q(tw, 2))]]

tidyArrange(its, sz) ==
    tidyArrangeIn(its, sz[1], controls.thumbWidth, controls.thumbGap, controls.maxCols)

\* the auto-tidy effect, run after a render in which one of its dependencies
\* changed: the items it leaves
autoTidyEffect(its, sz, ctl) ==
    IF ctl.autoTidy /\ Len(its) > 0
    THEN tidyArrangeIn(its, sz[1], ctl.thumbWidth, ctl.thumbGap, ctl.maxCols)
    ELSE its

\* setItems(next) and the auto-tidy effect of the render it causes, which runs
\* when the number of items changed
CommitItems(next, sz) ==
    IF Len(next) # Len(items) THEN autoTidyEffect(next, sz, controls) ELSE next

StartPreload(imgs) ==
    [images |-> imgs, existing |-> items, cancelled |-> FALSE, loaded |-> 0,
     done |-> imgs = <<>>]

\* the cleanup of the preload effect
Cancelled(ps) == [k \in 1..Len(ps) |-> [ps[k] EXCEPT !.cancelled = TRUE]]

\* the image lists the App can hand over next: an upload appended, an image
\* removed, an image dropped on another
NextImageLists ==
    {images \o <<nextId>> : n \in {k \in {nextId} : k <= MaxUploads}}
    \cup {SelectSeq(images, LAMBDA id : id # gone) : gone \in Range(images)}
    \cup {MoveTo(images, from, to) : from \in 1..Len(images), to \in 1..Len(images)}

notPreload == <<editorVars, layoutVars, exportVars, workerVars, poolVars,
                imageBitmaps, bigImageId, layoutMode, drawn, rerender,
                activeId, size, controls, draggingRef, dragOffsetRef, rotatingRef,
                lastGuidesRef, lastEvent, snapArgs, snapResults>>

\* A render with a changed image list: the effect's cleanup cancels the preload in
\* flight and the effect starts one for the new list, which with no image to
\* await sets the items at once.
imagesChange ==
    /\ Len(preloads) < MaxPreloads
    /\ \E imgs \in NextImageLists \ {images} :
          /\ images' = imgs
          /\ nextId' = IF Len(imgs) > Len(images) THEN nextId + 1 ELSE nextId
          /\ preloads' = Append(Cancelled(preloads), StartPreload(imgs))
          /\ items' = IF imgs = <<>> THEN <<>> ELSE items
    /\ UNCHANGED notPreload

\* a mutant: the loop and the commit do not look at `cancelled`
imageSettlesUnchecked(k) ==
    LET p == preloads[k]
    IN  /\ ~p.done
        /\ IF p.loaded + 1 < Len(p.images)
           THEN /\ preloads' = [preloads EXCEPT ![k].loaded = p.loaded + 1]
                /\ UNCHANGED items
           ELSE /\ preloads' = [preloads EXCEPT ![k].loaded = p.loaded + 1, ![k].done = TRUE]
                /\ items' = CommitItems(NextItems(p, size), size)

\* The image a preload awaits has loaded or failed. A cancelled preload returns;
\* one that has awaited its last image sets the items.
imageSettlesIn(k) ==
    LET p == preloads[k]
    IN  /\ ~p.done
        /\ IF p.cancelled
           THEN /\ preloads' = [preloads EXCEPT ![k].done = TRUE]
                /\ UNCHANGED items
           ELSE IF p.loaded + 1 < Len(p.images)
           THEN /\ preloads' = [preloads EXCEPT ![k].loaded = p.loaded + 1]
                /\ UNCHANGED items
           ELSE /\ preloads' = [preloads EXCEPT ![k].loaded = p.loaded + 1, ![k].done = TRUE]
                /\ items' = CommitItems(NextItems(p, size), size)

imageSettles ==
    /\ \E k \in 1..Len(preloads) : imageSettlesIn(k)
    /\ UNCHANGED <<images, nextId, notPreload>>

\* The canvas is mounted with the App's image list, none or two images, and the
\* effect of the first render has started the first preload.
InitPreload ==
    /\ images \in {<<>>, <<1, 2>>}
    /\ nextId = Len(images) + 1
    /\ items = <<>>
    /\ preloads = <<[images |-> images, existing |-> <<>>, cancelled |-> FALSE, loaded |-> 0,
                     done |-> images = <<>>]>>
    /\ imageBitmaps = {} /\ bigImageId = Null /\ layoutMode = "freeform"
    /\ drawn = Blank /\ rerender = FALSE
    /\ activeId = Null /\ size = <<800, 800>> /\ controls = DefaultControls
    /\ draggingRef = FALSE /\ dragOffsetRef = NoOffset /\ rotatingRef = FALSE
    /\ lastGuidesRef = NoGuides /\ lastEvent = NoEvent
    /\ snapArgs = <<>> /\ snapResults = <<>>
    /\ snap = <<>> /\ frame = NoFrame
    /\ IdleExport /\ IdleWorker /\ IdlePool /\ IdleEditor

NextPreload == imagesChange \/ imageSettles \/ onMouseDown \/ onWheel

SpecPreload == InitPreload /\ [][NextPreload]_vars

\* the preload of the current image list has set the items
Committed ==
    /\ preloads[Len(preloads)].done
    /\ ~preloads[Len(preloads)].cancelled
CommitStep == Committed' /\ (~Committed \/ Len(preloads') # Len(preloads))

\* C12 as stated: once the preload for the current image list has committed, the
\* item list holds exactly one item per image of the working set, in image order,
\* and no item for a removed image.
C12_ItemsInImageOrder == Committed => ItemIds(items) = images

\* C12, amended: the commit of a preload leaves exactly one item per image, in image
\* order; while it stands there is exactly one item per image and none for a removed
\* image, in an order a mouse-down may have changed; and a preload superseded by a
\* newer image list never writes the item list.
C12_OneItemPerImage ==
    /\ [](Committed => /\ Range(ItemIds(items)) = Range(images)
                       /\ Len(items) = Len(images))
    /\ [][CommitStep => ItemIds(items') = images']_vars
    /\ [][(\E k \in 1..Len(preloads) :
              preloads[k].cancelled /\ ~preloads[k].done /\ preloads'[k].done)
          => items' = items]_vars

\* the preload of the current list has committed after a superseded one returned,
\* and a mouse-down has since brought the first image's item to the top
C12_Witness ==
    /\ Committed
    /\ \E k \in 1..(Len(preloads) - 1) : preloads[k].cancelled /\ preloads[k].done
                                          /\ preloads[k].images # <<>>
    /\ Len(images) >= 2
    /\ ItemIds(items) # images

\* the layer an operation of a frame belongs to: 0 the clear, 1 the background,
\* 2 the images of the layout, 3 the watermark, 4 a text layer
LayerOf(o) ==
    CASE o.op = "clearRect" -> 0
      [] o.op \in {"fillRect", "drawBackground"} -> 1
      [] o.op = "drawWatermark" -> 3
      [] o.op = "fillText" -> 4
      [] OTHER -> 2

\* C23: every draw, in every rendering context and for every image count, first
\* clears the surface and then paints background, the images of the layout, the
\* watermark when one is set, and each text layer of the snapshot in list order,
\* skipping no layer the snapshot holds.
C23_LayersInOrder ==
    Drawn =>
        LET texts == SelectSeq(frame.ops, LAMBDA o : o.op = "fillText")
        IN  /\ ~frame.threw
            /\ Len(frame.ops) >= 2
            /\ frame.ops[1].op = "clearRect"
            /\ LayerOf(frame.ops[2]) = 1
            /\ \A i \in 1..Len(frame.ops), j \in 1..Len(frame.ops) :
                  i < j => LayerOf(frame.ops[i]) < LayerOf(frame.ops[j])
                           \/ (LayerOf(frame.ops[i]) = LayerOf(frame.ops[j])
                               /\ LayerOf(frame.ops[i]) \in {2, 4})
            /\ (snap.watermark.set /\ snap.watermarkBitmap)
                  <=> (\E j \in 1..Len(frame.ops) : frame.ops[j].op = "drawWatermark")
            /\ [k \in 1..Len(texts) |-> texts[k].id]
                  = [k \in 1..Len(snap.textLayers) |-> snap.textLayers[k].id]

(***************************************************************************)
(* drawImage on its own: one image, one placement, one zoom.               *)
(***************************************************************************)
FitXs == {I(0), I(16)}
FitYs == {I(0), Q(21, 2)}
FitWidths == {I(400), I(300), Q(784, 3), I(7)}
FitHeights == {I(300), I(90), I(284), I(3)}
FitZooms == {Q(1, 2), I(1), Q(3, 2), Q(21, 20)}
FitExtraZooms == {I(1), Q(6, 5)}
FitInputs ==
    { [img |-> id, x |-> x, y |-> y, w |-> w, h |-> h, globalZoom |-> z, extraZoom |-> e] :
        id \in 1..3, x \in FitXs, y \in FitYs, w \in FitWidths, h \in FitHeights,
        z \in FitZooms, e \in FitExtraZooms }

\* drawImage(img, x, y, w, h, extraZoom) of the App's drawCanvas
drawImageInApp ==
    /\ snap \in FitInputs
    /\ frame.ctx = "none"
    /\ frame' = Frame("appCell", 0, 0,
                      drawImage(snap.img, snap.x, snap.y, snap.w, snap.h,
                                snap.globalZoom, snap.extraZoom))
    /\ UNCHANGED <<snap, notLayout>>

\* drawImage(img, x, y, w, h, extraZoom) of the export worker's drawExportCanvas
drawImageInExportWorker ==
    /\ snap \in FitInputs
    /\ frame.ctx = "none"
    /\ frame' = Frame("exportCell", 0, 0,
                      drawImage(snap.img, snap.x, snap.y, snap.w, snap.h,
                                snap.globalZoom, snap.extraZoom))
    /\ UNCHANGED <<snap, notLayout>>

InitFit ==
    /\ snap \in FitInputs
    /\ frame = NoFrame
    /\ IdleExport /\ IdleWorker /\ IdlePool /\ IdleApp /\ IdleFreeform /\ IdleEditor

NextFit ==
    \/ drawImageInApp
    \/ drawImageInExportWorker

SpecFit == InitFit /\ [][NextFit]_vars

FitZoom == RMul(snap.globalZoom, snap.extraZoom)
FitBaseW == RDiv(frame.ops[1].render[3], FitZoom)
FitBaseH == RDiv(frame.ops[1].render[4], FitZoom)

\* C25: for an image of positive size and a placement of positive width w and
\* height h, the size before zoom (baseW, baseH) has the image's aspect ratio
\* (baseW * imgH = baseH * imgW), is inside the placement (baseW <= w, baseH <= h)
\* and touches it on at least one axis; the centre of the zoomed image is the
\* centre of the placement whatever the zoom.
C25_ContainFitCentred ==
    Drawn =>
        LET o    == frame.ops[1]
            dims == BitmapSize(snap.img)
        IN  /\ ~frame.threw
            /\ Len(frame.ops) = 1
            /\ o.op = "drawImage"
            /\ RMul(FitBaseW, I(dims[2])) = RMul(FitBaseH, I(dims[1]))
            /\ RLe(FitBaseW, snap.w)
            /\ RLe(FitBaseH, snap.h)
            /\ (FitBaseW = snap.w \/ FitBaseH = snap.h)
            /\ RAdd(o.render[1], RDiv(o.render[3], I(2))) = RAdd(snap.x, RDiv(snap.w, I(2)))
            /\ RAdd(o.render[2], RDiv(o.render[4], I(2))) = RAdd(snap.y, RDiv(snap.h, I(2)))

\* an image wider than its placement, zoomed past the placement's width
C25_Witness ==
    /\ Drawn
    /\ frame.ctx = "exportCell"
    /\ FitZoom = Q(9, 5)
    /\ FitBaseW = snap.w
    /\ RLt(FitBaseH, snap.h)
    /\ RLt(snap.w, frame.ops[1].render[3])
    /\ RLt(frame.ops[1].render[1], snap.x)

\* C28: alignment guides exist only while a drag is in progress: in every state
\* with no drag under way (after a keyboard nudge with no button down too) the
\* stored guide set lastGuidesRef is empty.
C28_GuidesOnlyInDrag ==
    ~draggingRef => lastGuidesRef = NoGuides

\* the preload that sets the items in this step
Committing(k) ==
    /\ k \in 1..Len(preloads)
    /\ Len(preloads') = Len(preloads)
    /\ ~preloads[k].done /\ ~preloads[k].cancelled
    /\ preloads'[k].done

\* C29: a change of position, scale, rotation or paint order made to an existing
\* item while a preload is in progress is still present after that preload sets
\* the item list.  Stated for the transform of each item, where the number of
\* items stays the same, so that no tidy follows the commit.
C29_CommitKeepsTransforms ==
    [][\A k \in 1..Len(preloads) :
          Committing(k) /\ Len(items') = Len(items) =>
              \A id \in Range(ItemIds(items)) \cap Range(ItemIds(preloads[k].existing)) :
                  ItemOf(items, id) # ItemOf(preloads[k].existing, id)
                      => /\ id \in Range(ItemIds(items'))
                         /\ ItemOf(items', id) = ItemOf(items, id)]_vars

(***************************************************************************)
(* The Tidy Now button: tidyArrange on a given canvas width, knobs, items. *)
(***************************************************************************)
TidyWidths == {900, 800, 357, 185, 100}
TidyControls ==
    { [DefaultControls EXCEPT !.thumbWidth = tw, !.thumbGap = gap, !.maxCols = mc] :
        tw \in {40, 160, 600}, gap \in {1, 12, 100}, mc \in {1, 5, 20} }
TidyItems ==
    { <<>>,
      <<Item(2, I(406), I(300), Q(2, 5), Unrotated), Item(1, I(100), I(100), I(5), Unrotated)>>,
      [k \in 1..7 |-> Item(k, I(100 + 10 * k), I(50 * k), Q(2, 5),
                           IF k = 2 THEN <<Q(3, 5), Q(4, 5)>> ELSE Unrotated)] }

\* onClick={tidyArrange}
tidyNow ==
    /\ EventsLeft
    /\ items' = tidyArrange(items, size)
    /\ lastEvent' = Event("tidyNow", RZero, RZero, FALSE, "")
    /\ UNCHANGED <<activeId, draggingRef, dragOffsetRef, rotatingRef, lastGuidesRef, notCanvas>>

InitTidyNow ==
    /\ items \in TidyItems
    /\ size \in {<<w, 600>> : w \in TidyWidths}
    /\ controls \in TidyControls
    /\ activeId = Null
    /\ draggingRef = FALSE /\ dragOffsetRef = NoOffset /\ rotatingRef = FALSE
    /\ lastGuidesRef = NoGuides /\ preloads = <<>> /\ lastEvent = NoEvent
    /\ snapArgs = <<>> /\ snapResults = <<>>
    /\ snap = <<>> /\ frame = NoFrame
    /\ IdleExport /\ IdleWorker /\ IdlePool /\ IdleApp /\ IdleEditor

NextTidyNow == tidyNow

SpecTidyNow == InitTidyNow /\ [][NextTidyNow]_vars

\* the column count as the claim states it
StatedCols ==
    Max(1, Min(controls.maxCols,
               (size[1] - controls.thumbGap) \div (controls.thumbWidth + controls.thumbGap)))
WasTidyNow == lastEvent.type = "tidyNow"
\* everything the claim says of tidy arrange but the scale
TidyPlacement ==
    LET was   == lastEvent.before.items
        pitch == controls.thumbWidth + controls.thumbGap
    IN  /\ (controls.thumbWidth = 160 /\ controls.thumbGap = 12 /\ controls.maxCols = 5
              /\ size[1] = 900 => StatedCols = 5)
        /\ Len(items) = Len(was)
        /\ \A k \in 1..Len(items) :
              /\ items[k].id = was[k].id
              /\ items[k].rotation = was[k].rotation
              /\ items[k].x = RAdd(I(controls.thumbGap + ((k - 1) % StatedCols) * pitch),
                                   Q(controls.thumbWidth, 2))
              /\ items[k].y = RAdd(I(controls.thumbGap + ((k - 1) \div StatedCols) * pitch),
                                   Q(controls.thumbWidth, 2))
        /\ \A j, k \in 1..Len(items) :
              j # k => items[j].x # items[k].x \/ items[j].y # items[k].y

\* C21 as stated: tidy arrange uses cols = max(1, min(maxCols, floor((W - gap) /
\* (thumbWidth + gap)))) (5 for 160, 12, 5 and W = 900), puts item idx at column
\* idx mod cols and row floor(idx / cols), so that distinct items get distinct
\* centres, gives every item the scale thumbWidth / intrinsicWidth, and leaves
\* ids, order and rotation as they were.
C21_TidyAsStated ==
    WasTidyNow =>
        /\ TidyPlacement
        /\ \A k \in 1..Len(items) :
              RMul(items[k].scale, I(naturalWidth(items[k].id))) = I(controls.thumbWidth)

\* C21, amended: the same, with the scale thumbWidth / intrinsicWidth for an
\* image of positive intrinsic width and thumbWidth for an image that failed to
\* load (its width 0 is taken as 1).
C21_TidyLayout ==
    WasTidyNow =>
        /\ TidyPlacement
        /\ \A k \in 1..Len(items) :
              IF naturalWidth(items[k].id) > 0
              THEN RMul(items[k].scale, I(naturalWidth(items[k].id))) = I(controls.thumbWidth)
              ELSE items[k].scale = I(controls.thumbWidth)

\* seven items tidied on the 900 wide canvas with the default knobs: two rows
C21_Witness ==
    /\ WasTidyNow
    /\ size[1] = 900 /\ controls = DefaultControls
    /\ Len(items) = 7
    /\ lastEvent.before.items # items
    /\ items[6].x = items[1].x /\ items[6].y = I(264)
    /\ items[7].scale = I(160)

(***************************************************************************)
(* The auto-tidy effect: the tidy knobs, the Auto Tidy box, the measured   *)
(* size and the preload's commits, with the listeners that edit an item.   *)
(***************************************************************************)
\* a render in which a dependency of the auto-tidy effect changed
KnobChange(ctl) ==
    /\ EventsLeft
    /\ controls' = ctl
    /\ items' = autoTidyEffect(items, size, ctl)
    /\ lastEvent' = Event("change", RZero, RZero, FALSE, "")
    /\ UNCHANGED <<editorVars, layoutVars, exportVars, workerVars, poolVars, appVars,
                   activeId, size, draggingRef, dragOffsetRef, rotatingRef, lastGuidesRef,
                   preloads, snapArgs, snapResults>>

\* onChange={e => setThumbWidth(Number(e.target.value)||160)}
setThumbWidth ==
    \E v \in {160, 40} \ {controls.thumbWidth} : KnobChange([controls EXCEPT !.thumbWidth = v])
\* onChange={e => setThumbGap(Number(e.target.value)||12)}
setThumbGap ==
    \E v \in {12, 100} \ {controls.thumbGap} : KnobChange([controls EXCEPT !.thumbGap = v])
\* onChange={e => setMaxCols(Number(e.target.value)||5)}
setMaxCols ==
    \E v \in {5, 1} \ {controls.maxCols} : KnobChange([controls EXCEPT !.maxCols = v])
\* onChange={e => setAutoTidy(e.target.checked)}
setAutoTidy ==
    KnobChange([controls EXCEPT !.autoTidy = ~controls.autoTidy])

\* the ResizeObserver callback: setSize; the effect depends on size.w only
measure ==
    /\ EventsLeft
    /\ \E sz \in {<<800, 800>>, <<357, 800>>, <<800, 600>>} \ {size} :
          /\ size' = sz
          /\ items' = IF sz[1] # size[1] THEN autoTidyEffect(items, sz, controls) ELSE items
    /\ lastEvent' = Event("resize", RZero, RZero, FALSE, "")
    /\ UNCHANGED <<editorVars, layoutVars, exportVars, workerVars, poolVars, appVars,
                   activeId, controls, draggingRef, dragOffsetRef, rotatingRef, lastGuidesRef,
                   preloads, snapArgs, snapResults>>

\* The canvas is mounted with two images, Auto Tidy on or off, and the effect of
\* the first render has started the first preload.
InitAutoTidy ==
    /\ images = <<1, 2>>
    /\ nextId = 3
    /\ items = <<>>
    /\ preloads = <<[images |-> images, existing |-> <<>>, cancelled |-> FALSE, loaded |-> 0,
                     done |-> FALSE]>>
    /\ imageBitmaps = {} /\ bigImageId = Null /\ layoutMode = "freeform"
    /\ drawn = Blank /\ rerender = FALSE
    /\ activeId = Null /\ size = <<800, 800>>
    /\ controls \in {DefaultControls, [DefaultControls EXCEPT !.autoTidy = FALSE]}
    /\ draggingRef = FALSE /\ dragOffsetRef = NoOffset /\ rotatingRef = FALSE
    /\ lastGuidesRef = NoGuides /\ lastEvent = NoEvent
    /\ snapArgs = <<>> /\ snapResults = <<>>
    /\ snap = <<>> /\ frame = NoFrame
    /\ IdleExport /\ IdleWorker /\ IdlePool /\ IdleEditor

NextAutoTidy ==
    \/ setThumbWidth
    \/ setThumbGap
    \/ setMaxCols
    \/ setAutoTidy
    \/ measure
    \/ imagesChange
    \/ imageSettles
    \/ onMouseDown
    \/ onWheel

SpecAutoTidy == InitAutoTidy /\ [][NextAutoTidy]_vars

\* one of the changes the claim names happens in this step
TidyTrigger ==
    \/ Len(items') # Len(items)
    \/ size'[1] # size[1]
    \/ controls'.thumbWidth # controls.thumbWidth
    \/ controls'.thumbGap # controls.thumbGap
    \/ controls'.maxCols # controls.maxCols

\* with auto-tidy on, the items are in the tidy layout of the new values after
\* any such change
C22_TidyAfterChange ==
    [][TidyTrigger /\ controls'.autoTidy =>
          items' = tidyArrangeIn(items', size'[1], controls'.thumbWidth, controls'.thumbGap,
                                 controls'.maxCols)]_vars

\* C22: with auto-tidy enabled the items sit in the tidy layout after any change
\* of the item count, canvas width, thumbnail width, gap or max columns; with
\* auto-tidy disabled those changes leave the position and scale of every item
\* unchanged.
C22_AutoTidy ==
    [][TidyTrigger =>
          IF controls'.autoTidy
          THEN items' = tidyArrangeIn(items', size'[1], controls'.thumbWidth,
                                      controls'.thumbGap, controls'.maxCols)
          ELSE \A id \in Range(ItemIds(items)) \cap Range(ItemIds(items')) :
                  /\ ItemOf(items', id).x = ItemOf(items, id).x
                  /\ ItemOf(items', id).y = ItemOf(items, id).y
                  /\ ItemOf(items', id).scale = ItemOf(items, id).scale]_vars

(***************************************************************************)
(* addImages step by step: each file gets its id when the loop reaches it, *)
(* the loop awaits its createImageBitmap, and the continuation of the last *)
(* await appends the images and merges the handles.  Removals, Clear       *)
(* Canvas and other uploads run while an upload awaits.                    *)
(***************************************************************************)
notUploads == <<watermark, watermarkBitmap, watermarkDecodes, knobs, debounced, timers,
                sinceChange, knobChanges, painted, interactionState, rafRef, rafPending, textLayers, nextRaf>>
quietExport == <<isExporting, renderedExporting, encodes, surfaces, downloads, alerts,
                 uncaught, lastCall>>
RECURSIVE FilesLeft(_)
FilesLeft(us) == IF us = <<>> THEN 0 ELSE Head(us).left + FilesLeft(Tail(us))
RemoveAt(seq, k) == [j \in 1..(Len(seq) - 1) |-> IF j < k THEN seq[j] ELSE seq[j + 1]]

\* addImages(files) up to its first await
addImagesStart ==
    /\ ~rerender
    /\ \E n \in 1..2 :
          /\ nextId + n - 1 + FilesLeft(uploads) <= MaxUploads
          /\ uploads' = Append(uploads, [ids |-> <<nextId>>, left |-> n - 1, bitmaps |-> {}])
    /\ nextId' = nextId + 1
    /\ UNCHANGED <<images, imageBitmaps, bigImageId, layoutMode, drawn, rerender, viewport,
                   quietExport, notUploads, layoutVars, workerVars, poolVars, freeformVars>>

\* a mutant: the handle goes into the cache as soon as it is decoded
decodeSettlesEager(k, ok) ==
    LET u   == uploads[k]
        now == IF ok THEN u.bitmaps \cup {u.ids[Len(u.ids)]} ELSE u.bitmaps
    IN  IF u.left > 0
        THEN /\ uploads' = [uploads EXCEPT ![k] = [ids |-> Append(u.ids, nextId),
                                                    left |-> u.left - 1, bitmaps |-> now]]
             /\ nextId' = nextId + 1
             /\ imageBitmaps' = imageBitmaps \cup now
             /\ UNCHANGED <<images, bigImageId, drawn, rerender>>
        ELSE /\ uploads' = RemoveAt(uploads, k)
             /\ CommitImages(images \o u.ids, imageBitmaps \cup now)
             /\ UNCHANGED nextId

\* createImageBitmap(file) of upload k resolves (ok) or rejects: the loop goes
\* on to the next file, or, after the last one, setImages and setImageBitmaps
\* are called with functional updates, in one render
decodeSettlesIn(k, ok) ==
    LET u   == uploads[k]
        now == IF ok THEN u.bitmaps \cup {u.ids[Len(u.ids)]} ELSE u.bitmaps
    IN  IF u.left > 0
        THEN /\ uploads' = [uploads EXCEPT ![k] = [ids |-> Append(u.ids, nextId),
                                                    left |-> u.left - 1, bitmaps |-> now]]
             /\ nextId' = nextId + 1
             /\ UNCHANGED <<images, imageBitmaps, bigImageId, drawn, rerender>>
        ELSE /\ uploads' = RemoveAt(uploads, k)
             /\ CommitImages(images \o u.ids, imageBitmaps \cup now)
             /\ UNCHANGED nextId

decodeSettles ==
    /\ ~rerender
    /\ \E k \in 1..Len(uploads), ok \in BOOLEAN : decodeSettlesIn(k, ok)
    /\ UNCHANGED <<layoutMode, viewport, quietExport, notUploads, layoutVars, workerVars,
                   poolVars, freeformVars>>

InitUpload ==
    /\ IdleApp
    /\ snap = <<>> /\ frame = NoFrame
    /\ IdleExport /\ IdleWorker /\ IdlePool /\ IdleFreeform /\ IdleEditor

NextUpload ==
    \/ addImagesStart
    \/ decodeSettles
    \/ removeImage
    \/ clearCanvas
    \/ handleDropOnImage
    \/ RenderBigImageId
    \/ resizeObserver

SpecUpload == InitUpload /\ [][NextUpload]_vars

\* C24: in every reachable state, whatever the interleaving of asynchronous
\* uploads (decode failures among them), removals of one image and Clear
\* Canvas, the bitmap cache holds no handle whose image id is not in the
\* working set.
C24_NoOrphanHandle ==
    imageBitmaps \subseteq Range(images)

\* an upload has decoded the handle of image 1 and awaits its second file, while
\* the upload of image 2 has committed and image 2 was taken out again
C24_Witness ==
    /\ Len(uploads) = 1
    /\ uploads[1].ids = <<1, 3>> /\ uploads[1].bitmaps = {1}
    /\ images = <<>> /\ imageBitmaps = {}
    /\ nextId = 4

(***************************************************************************)
(* The watermark: upload with its asynchronous decode, removal, Reset.     *)
(***************************************************************************)
notWatermark == <<uploads, knobs, debounced, timers, sinceChange, knobChanges, painted, interactionState,
                  rafRef, rafPending, textLayers, nextRaf,
                  layoutVars, exportVars, workerVars, poolVars, freeformVars>>

\* handleWatermarkUpload up to its await: setWatermark({id: generateId(), ...})
handleWatermarkUpload ==
    /\ nextId <= MaxUploads
    /\ watermark' = nextId
    /\ nextId' = nextId + 1
    /\ watermarkDecodes' = Append(watermarkDecodes, nextId)
    /\ UNCHANGED <<watermarkBitmap, images, imageBitmaps, bigImageId, layoutMode, drawn,
                   rerender, notWatermark>>

\* createImageBitmap(file) of a watermark upload resolves: setWatermarkBitmap(bitmap);
\* or rejects: setWatermark(null)
watermarkDecodeSettles ==
    /\ \E k \in 1..Len(watermarkDecodes), ok \in BOOLEAN :
          /\ watermarkDecodes' = RemoveAt(watermarkDecodes, k)
          /\ IF ok
             THEN watermarkBitmap' = watermarkDecodes[k] /\ UNCHANGED watermark
             ELSE watermark' = Null /\ UNCHANGED watermarkBitmap
    /\ UNCHANGED <<nextId, images, imageBitmaps, bigImageId, layoutMode, drawn, rerender,
                   notWatermark>>

\* the remove button of the watermark, shown while a watermark is set
removeWatermark ==
    /\ watermark # Null
    /\ watermark' = Null
    /\ watermarkBitmap' = Null
    /\ UNCHANGED <<watermarkDecodes, nextId, images, imageBitmaps, bigImageId, layoutMode,
                   drawn, rerender, notWatermark>>

\* The Reset Settings button with its watermark: watermark and handle are
\* cleared and layoutMode set to 'grid' (knobs and text layers are at their
\* defaults here).
resetSettingsWatermark ==
    /\ ~rerender
    /\ watermark' = Null
    /\ watermarkBitmap' = Null
    /\ layoutMode' = "grid"
    /\ drawn' = DrawEffect(images, imageBitmaps, bigImageId, "grid", viewport, drawn)
    /\ UNCHANGED <<watermarkDecodes, nextId, images, imageBitmaps, bigImageId, rerender,
                   notWatermark>>

InitWatermark ==
    /\ IdleApp
    /\ snap = <<>> /\ frame = NoFrame
    /\ IdleExport /\ IdleWorker /\ IdlePool /\ IdleFreeform /\ IdleEditor

NextWatermark ==
    \/ handleWatermarkUpload
    \/ watermarkDecodeSettles
    \/ removeWatermark
    \/ resetSettingsWatermark
    \/ setLayoutMode

SpecWatermark == InitWatermark /\ [][NextWatermark]_vars

\* C30: whenever no watermark is set no watermark handle is held, whatever the
\* interleaving of watermark uploads, decodes that complete or fail, and removals.
C30_NoHandleWithoutWatermark ==
    watermark = Null => watermarkBitmap = Null

(***************************************************************************)
(* Dragging a text layer on the App's canvas: each pointer move asks for   *)
(* an animation frame whose callback moves the layer.                      *)
(***************************************************************************)
MaxFrames == 3
notTextDrag == <<uploads, watermark, watermarkBitmap, watermarkDecodes, knobs, debounced,
                 timers, sinceChange, knobChanges, painted,
                 layoutVars, exportVars, workerVars, poolVars, appVars, freeformVars>>
\* a text layer: its centre and its measured box (text width and font size plus padding)
TextLayerAt(id, x, y, w, h) == [id |-> id, x |-> x, y |-> y, w |-> w, h |-> h]
CanvasPoints == {<<100, 100>>, <<70, 95>>, <<300, 300>>}
\* the last layer whose box holds the point, 0 when none does (rotation 0)
TextHit(mouseX, mouseY) ==
    LET hits == {i \in 1..Len(textLayers) :
                    /\ 2 * Abs(mouseX - textLayers[i].x) < textLayers[i].w
                    /\ 2 * Abs(mouseY - textLayers[i].y) < textLayers[i].h}
    IN  IF hits = {} THEN 0 ELSE CHOOSE i \in hits : \A j \in hits : j <= i

\* handleMouseDown: a hit starts a drag of the topmost layer under the pointer
handleMouseDown ==
    /\ \E p \in CanvasPoints :
          LET i == TextHit(p[1], p[2])
          IN  IF i = 0
              THEN UNCHANGED interactionState
              ELSE interactionState' =
                      [mode |-> "dragging", target |-> "text", id |-> textLayers[i].id,
                       offsetX |-> p[1] - textLayers[i].x, offsetY |-> p[2] - textLayers[i].y]
    /\ UNCHANGED <<rafRef, rafPending, textLayers, nextRaf, notTextDrag>>

\* a mutant: the pending frame is not cancelled before the next is requested
handleMouseMoveNoCancel(mouseX, mouseY) ==
    /\ interactionState.mode = "dragging"
    /\ nextRaf <= MaxFrames
    /\ rafPending' = rafPending \cup
                        {[raf |-> nextRaf, layer |-> interactionState.id,
                          x |-> mouseX - interactionState.offsetX,
                          y |-> mouseY - interactionState.offsetY]}
    /\ rafRef' = nextRaf
    /\ nextRaf' = nextRaf + 1

\* handleMouseMove: returns unless dragging; cancels the frame rafRef names and
\* requests one whose callback will move the dragged layer under the pointer
handleMouseMoveAt(mouseX, mouseY) ==
    /\ interactionState.mode = "dragging"
    /\ nextRaf <= MaxFrames
    /\ rafPending' = {c \in rafPending : c.raf # rafRef} \cup
                        {[raf |-> nextRaf, layer |-> interactionState.id,
                          x |-> mouseX - interactionState.offsetX,
                          y |-> mouseY - interactionState.offsetY]}
    /\ rafRef' = nextRaf
    /\ nextRaf' = nextRaf + 1

handleMouseMove ==
    /\ \E p \in CanvasPoints : handleMouseMoveAt(p[1], p[2])
    /\ UNCHANGED <<interactionState, textLayers, notTextDrag>>

\* the browser runs a requested frame: setTextLayers(prev => prev.map(...))
animationFrame ==
    /\ \E c \in rafPending :
          /\ rafPending' = rafPending \ {c}
          /\ textLayers' = [i \in 1..Len(textLayers) |->
                               IF textLayers[i].id = c.layer
                               THEN [textLayers[i] EXCEPT !.x = c.x, !.y = c.y]
                               ELSE textLayers[i]]
    /\ UNCHANGED <<interactionState, rafRef, nextRaf, notTextDrag>>

\* handleMouseUp, the handler of mouseup and of mouseleave
handleMouseUp ==
    /\ rafPending' = {c \in rafPending : c.raf # rafRef}
    /\ interactionState' = NoInteraction
    /\ UNCHANGED <<rafRef, textLayers, nextRaf, notTextDrag>>

InitTextDrag ==
    /\ textLayers = <<TextLayerAt(1, 90, 100, 80, 30), TextLayerAt(2, 120, 110, 80, 30)>>
    /\ interactionState = NoInteraction /\ rafRef = 0 /\ rafPending = {} /\ nextRaf = 1
    /\ uploads = <<>>
    /\ watermark = Null /\ watermarkBitmap = Null /\ watermarkDecodes = <<>>
    /\ knobs = KnobDefaults /\ debounced = KnobDefaults
    /\ timers = {} /\ sinceChange = [k \in Knobs |-> 0] /\ knobChanges = 0
    /\ painted = KnobDefaults
    /\ snap = <<>> /\ frame = NoFrame
    /\ IdleExport /\ IdleWorker /\ IdlePool /\ IdleApp /\ IdleFreeform

NextTextDrag ==
    \/ handleMouseDown
    \/ handleMouseMove
    \/ animationFrame
    \/ handleMouseUp

SpecTextDrag == InitTextDrag /\ [][NextTextDrag]_vars

\* C27: during a text-layer drag at most one animation-frame callback is pending
\* at any time, and after mouse-up or mouse-leave (the interaction is idle)
\* no callback that can still move the layer is pending.
C27_OneFramePending ==
    /\ Cardinality(rafPending) <= 1
    /\ interactionState.mode = "idle" => rafPending = {}

\* the drag is over, its first frame moved layer 2 and its second was cancelled
\* by the mouse-up before it ran
C27_Witness ==
    /\ interactionState.mode = "idle"
    /\ rafRef = 2 /\ nextRaf = 3 /\ rafPending = {}
    /\ textLayers[2].x = 90 /\ textLayers[2].y = 105

(***************************************************************************)
(* The debounced knobs.  Each slider value goes through useDebouncedValue, *)
(* whose effect replaces its timeout whenever the value changes; the draw  *)
(* effect reads the debounced values.  Time advances in steps of the       *)
(* delay; a timeout may run late, never early.                             *)
(***************************************************************************)
MaxChanges == 2
delay == 50
TimeStep == delay
notKnobs == <<uploads, watermark, watermarkBitmap, watermarkDecodes, interactionState,
              rafRef, rafPending, textLayers, nextRaf,
              layoutVars, exportVars, workerVars, poolVars, freeformVars>>
\* the values the sliders are moved to
SliderValues ==
    [gap |-> {I(16), I(40), I(0)}, globalZoom |-> {I(1), Q(3, 2)}, mainZoom |-> {I(1), Q(1, 2)},
     bgBlur |-> {I(10), I(0)}, bgOpacity |-> {Q(3, 10), I(1)}]
\* Gap and Global Zoom are disabled in 'single-blur'; the other three sliders
\* are rendered in 'single-blur' only
SliderEnabled(k) == (k \in {"gap", "globalZoom"}) <=> (layoutMode # "single-blur")
Timeout(k, v) == [knob |-> k, value |-> v, left |-> delay]

\* a mutant: the effect has no cleanup, the timeout of the old value stays
setKnobNoCleanup(k, v) ==
    /\ knobs' = [knobs EXCEPT ![k] = v]
    /\ timers' = timers \cup {Timeout(k, v)}
    /\ sinceChange' = [sinceChange EXCEPT ![k] = 0]

\* A slider's onChange sets the knob; in the render it causes, the effect of
\* the knob's useDebouncedValue runs its cleanup (clearTimeout) and sets a new
\* timeout for the new value.  No dependency of the draw effect changed.
setKnobTo(k, v) ==
    /\ knobs' = [knobs EXCEPT ![k] = v]
    /\ timers' = {t \in timers : t.knob # k} \cup {Timeout(k, v)}
    /\ sinceChange' = [sinceChange EXCEPT ![k] = 0]

setKnob ==
    /\ knobChanges < MaxChanges
    /\ \E k \in Knobs :
          /\ SliderEnabled(k)
          /\ \E v \in SliderValues[k] \ {knobs[k]} : setKnobTo(k, v)
    /\ knobChanges' = knobChanges + 1
    /\ UNCHANGED <<debounced, painted, appVars, notKnobs>>

\* time passes
tick ==
    /\ timers # {}
    /\ timers' = {[t EXCEPT !.left = Max(0, t.left - TimeStep)] : t \in timers}
    /\ sinceChange' = [k \in Knobs |-> Min(delay, sinceChange[k] + TimeStep)]
    /\ UNCHANGED <<knobs, debounced, knobChanges, painted, appVars, notKnobs>>

\* A timeout runs: setDebouncedValue(value).  When the debounced value changes,
\* the render runs the draw effect, which reads the debounced values.
timerFires ==
    /\ \E t \in timers :
          /\ t.left = 0
          /\ timers' = timers \ {t}
          /\ debounced' = [debounced EXCEPT ![t.knob] = t.value]
          /\ painted' = IF debounced' # debounced /\ viewport[1] # 0 /\ viewport[2] # 0
                        THEN debounced' ELSE painted
    /\ UNCHANGED <<knobs, sinceChange, knobChanges, appVars, notKnobs>>

\* The Reset Settings button with its knobs: every knob goes to its initial
\* value, each changed one replacing its timeout, and layoutMode to 'grid',
\* which the draw effect paints at once.
resetSettingsKnobs ==
    /\ ~rerender
    /\ knobs' = KnobDefaults
    /\ timers' = {t \in timers : knobs[t.knob] = KnobDefaults[t.knob]}
                    \cup {Timeout(k, KnobDefaults[k]) : k \in {j \in Knobs : knobs[j] # KnobDefaults[j]}}
    /\ sinceChange' = [k \in Knobs |-> IF knobs[k] # KnobDefaults[k] THEN 0 ELSE sinceChange[k]]
    /\ layoutMode' = "grid"
    /\ drawn' = DrawEffect(images, imageBitmaps, bigImageId, "grid", viewport, drawn)
    /\ UNCHANGED <<debounced, knobChanges, painted, images, imageBitmaps, bigImageId, rerender,
                   nextId, notKnobs>>

\* The App is mounted and measured, two decoded images are in the working set,
\* the first draw is done and the first timeout of each knob's hook has run.
InitDebounce ==
    /\ images = <<1, 2>> /\ imageBitmaps = {1, 2} /\ bigImageId = 1 /\ layoutMode = "grid"
    /\ nextId = 3 /\ rerender = FALSE
    /\ viewport = <<800, 600>>
    /\ drawn = AppSnapshot(images, imageBitmaps, bigImageId, layoutMode, viewport)
    /\ knobs = KnobDefaults /\ debounced = KnobDefaults /\ painted = KnobDefaults
    /\ timers = {}
    /\ sinceChange = [k \in Knobs |-> delay] /\ knobChanges = 0
    /\ uploads = <<>>
    /\ watermark = Null /\ watermarkBitmap = Null /\ watermarkDecodes = <<>>
    /\ interactionState = NoInteraction /\ rafRef = 0 /\ rafPending = {}
    /\ textLayers = <<>> /\ nextRaf = 1
    /\ isExporting = FALSE /\ renderedExporting = FALSE /\ encodes = <<>> /\ surfaces = 0
    /\ downloads = 0 /\ alerts = 0 /\ uncaught = 0 /\ lastCall = "none"
    /\ snap = <<>> /\ frame = NoFrame
    /\ IdleWorker /\ IdlePool /\ IdleFreeform

NextDebounce ==
    \/ setKnob
    \/ tick
    \/ timerFires
    \/ resetSettingsKnobs
    \/ setLayoutMode
    \/ clearCanvas
    \/ RenderBigImageId

SpecDebounce == InitDebounce /\ [][NextDebounce]_vars

\* timeouts run and time passes
SpecDebounceLive == SpecDebounce /\ WF_vars(tick) /\ WF_vars(timerFires)

\* the value used for drawing only changes to a value that was the knob's value
\* for the whole delay
DebouncedOnlyToSettled ==
    [][\A k \in Knobs :
          painted'[k] # painted[k] \/ debounced'[k] # debounced[k] =>
              /\ painted'[k] = knobs[k] /\ debounced'[k] = knobs[k]
              /\ knobs'[k] = knobs[k]
              /\ sinceChange[k] >= delay]_vars
OneTimerPerKnob ==
    \A k \in Knobs : Cardinality({t \in timers : t.knob = k}) <= 1
\* the image list and the layout mode the canvas shows are the current ones
DrawnIsCurrent ==
    /\ drawn.images = images
    /\ drawn.layoutMode = layoutMode
    /\ painted = debounced

\* C26: for each debounced knob the value used for drawing only ever changes to
\* a value that stayed the knob's value for the whole delay; a knob change
\* cancels the pending timer, so that at most one timer per knob is pending;
\* once the knobs stop changing the drawn values come to equal them; changes of
\* the image list and of the layout mode reach the draw with no timer.
C26_Debounce ==
    /\ DebouncedOnlyToSettled
    /\ []OneTimerPerKnob
    /\ []DrawnIsCurrent
    /\ <>[](painted = knobs)

\* the gap was moved twice within the delay and the canvas shows the second value
C26_Witness ==
    /\ knobs.gap = I(0) /\ painted.gap = I(0)
    /\ knobChanges = 2
    /\ timers = {}

============================================================================
